---- MODULE Spec2Model ----
(***************************************************************************)
(* Model of the task recommendation engine of task_service_backend         *)
(* (service.py, class TaskService) over the tables of models.py.           *)
(*                                                                         *)
(* Real-valued scores are kept in fixed point: a score s is the integer    *)
(* s * Scale.  np.mean and np.std are kept as exact fractions [num, den]   *)
(* so that "standard deviation is zero" is decided exactly; a fraction     *)
(* with den = 0 stands for numpy's nan (the mean of an empty list).        *)
(***************************************************************************)
EXTENDS Integers, Sequences, FiniteSets, TLC

\* ------------------------------------------------------------------ bounds
MaxTasks == 3

\* tasks created through the HTTP interface
MaxCreated == 1

\* users created through the HTTP interface
MaxUsers == 2

\* fixed-point resolution of a score (three decimal digits)
Scale == 10 * 10 * 10

TaskIds == 1..MaxTasks

\* ids of the Property rows
Props == {1, 2}

Users == {"u1", "u2"}

None == "None"

NoTask == [absent |-> TRUE]

\* Task.Status (models.py)
NOT_STARTED == "Not started"

IN_PROGRESS == "In progress"

IN_REVIEW == "In review"

DONE == "Done"

\* no request is being answered
NoRequest == [idle |-> TRUE]

NoResponse == [idle |-> TRUE]

\* the requests that can be in flight at the same time
Procs == {"p1", "p2"}

\* a process that has not sent its request
NotSent == [pc |-> "idle"]

\* A description is the sequence of its whitespace-separated words.
Descriptions == { <<>>, <<"fix", "a", "bug">>, <<"fix", "ui">> }

\* ------------------------------------------------------------------ state
VARIABLES
    tasks,            \* Task table: id -> row, or NoTask
    task_properties,  \* TaskProperty rows: set of <<task id, property id>>
    user_properties,  \* UserProperty rows: set of [user, property, is_interested]
    user_behaviors,   \* UserBehavior rows: set of [user, task, is_like]
    caller,           \* user of the current / last get_user_task_rank call
    pc,               \* "idle" | "returned" | "raised"
    all_active_task,  \* the candidates read by the call
    interest_scores,
    history_scores,
    behavior_scores,
    normalized_interest_scores,
    normalized_history_score,
    normalized_behavior_score,
    final_scores,
    task_ranking,     \* the returned list
    raised,           \* "none" | "ValueError" | "Http404"
    rows,             \* the Task objects the call holds: candidate -> row as read
    pending,          \* candidates the scoring loop has not reached yet
    cur,              \* the candidate being scored
    ids,              \* ids of the last id query not yet resolved
    ids_len,          \* len() of the last id query
    score_sum,        \* score_sum of the running score call
    deleter,          \* the concurrent DELETE request: "ready" | "done"
    last_id,          \* the last id the Task table has issued (AutoField)
    request,          \* the HTTP request being answered, or NoRequest
    instance,         \* the row get_object() gave the request, or NoTask
    response,         \* its response, or NoResponse
    user_profiles,    \* UserProfile table: set of [id, user, is_employer]
    last_profile_id,  \* the last id the UserProfile table has issued
    last_behavior_id, \* the last id the UserBehavior table has issued
    in_flight,        \* the requests that are answered step by step: process -> record
    auth_users,       \* User table: set of [id, username, email]
    last_user_id      \* the last id the User table has issued

store == <<tasks, task_properties, user_properties, user_behaviors>>

call == <<caller, pc, all_active_task, interest_scores, history_scores,
          behavior_scores, normalized_interest_scores, normalized_history_score,
          normalized_behavior_score, final_scores, task_ranking, raised>>

\* the position of a call that runs query by query
loop == <<rows, pending, cur, ids, ids_len, score_sum>>

\* the HTTP interface of TaskViewSet
api == <<last_id, request, instance, response>>

\* the tables behind the other view sets
tables == <<user_profiles, last_profile_id, last_behavior_id>>

\* requests in flight, and the User table they write
flight == <<in_flight, auth_users, last_user_id>>

vars == <<store, call, loop, deleter, api, tables, flight>>

\* ------------------------------------------------------------------ helpers
Min(a, b) == IF a <= b THEN a ELSE b

RECURSIVE SumOver(_, _)
\* sum of f[x] over the finite set S
SumOver(f, S) ==
    IF S = {} THEN 0
    ELSE LET x == CHOOSE y \in S : TRUE IN f[x] + SumOver(f, S \ {x})

RECURSIVE ISqrtIter(_, _, _)
ISqrtIter(n, lo, hi) ==
    IF lo >= hi THEN lo
    ELSE LET mid == (lo + hi + 1) \div 2
         IN  IF mid * mid <= n THEN ISqrtIter(n, mid, hi)
                               ELSE ISqrtIter(n, lo, mid - 1)

\* floor of the square root
ISqrt(n) == ISqrtIter(n, 0, Min(n, 46340))

\* all orders in which a set can be iterated
RECURSIVE Orders(_)
Orders(S) ==
    IF S = {} THEN { <<>> }
    ELSE UNION { { <<x>> \o r : r \in Orders(S \ {x}) } : x \in S }

Range(s) == { s[i] : i \in DOMAIN s }

\* ------------------------------------------------------------------ queries
Exists(T, id) == T[id] # NoTask

\* mutant: the is_active filter forgotten
AllTasks(T) == { t \in TaskIds : Exists(T, t) }

\* Task.objects.all().filter(is_active=True)
ActiveTasks(T) == { t \in TaskIds : Exists(T, t) /\ T[t].is_active }

\* user.user_properties.filter(is_interested=True).values_list('property_id')
get_user_interested_properties(UP, user) ==
    { r.property : r \in { x \in UP : x.user = user /\ x.is_interested } }

\* user.user_behaviors.filter(is_like=True).values_list('task_id')
get_user_liked_tasks(UB, user) ==
    { r.task : r \in { x \in UB : x.user = user /\ x.is_like } }

\* mutant: the status filter forgotten
AssignedTasks(T, user) == { t \in TaskIds : Exists(T, t) /\ T[t].assignee = user }

\* user.assigned_tasks.filter(status=DONE).values_list('id')
get_user_completed_tasks(T, user) ==
    { t \in TaskIds : Exists(T, t) /\ T[t].assignee = user /\ T[t].status = DONE }

\* task.task_properties.all().values_list('property_id')
get_task_properties(TP, task) == { r[2] : r \in { x \in TP : x[1] = task } }

\* ------------------------------------------------------------------ similarity
\* TfidfVectorizer's default analyzer (token_pattern (?u)\b\w\w+\b): only
\* words of two or more characters are tokens.
Tokenize(description) == SelectSeq(description, LAMBDA w : Len(w) >= 2)

TermCount(w, toks) == Cardinality({ i \in DOMAIN toks : toks[i] = w })

\* smooth idf over the two-document corpus, ln((1 + 2) / (1 + df)) + 1, in
\* hundredths: 1.00 for a term of both documents, 1.41 for a term of one.
Idf(df) == IF df = 2 THEN 100 ELSE 141

\* calc_task_similarity on the two descriptions.  fit_transform raises
\* ValueError ("empty vocabulary") when neither document has a token; a
\* document without tokens is a zero row, which normalisation leaves zero.
Similarity(description_1, description_2) ==
    LET toks1 == Tokenize(description_1)
        toks2 == Tokenize(description_2)
        vocabulary == Range(toks1) \cup Range(toks2)
        df(w) == (IF w \in Range(toks1) THEN 1 ELSE 0)
                 + (IF w \in Range(toks2) THEN 1 ELSE 0)
        w1 == [w \in vocabulary |-> TermCount(w, toks1) * Idf(df(w))]
        w2 == [w \in vocabulary |-> TermCount(w, toks2) * Idf(df(w))]
        dot == SumOver([w \in vocabulary |-> w1[w] * w2[w]], vocabulary)
        sq1 == SumOver([w \in vocabulary |-> w1[w] * w1[w]], vocabulary)
        sq2 == SumOver([w \in vocabulary |-> w2[w] * w2[w]], vocabulary)
    IN  IF vocabulary = {} THEN [ok |-> FALSE, val |-> 0]
        ELSE IF sq1 = 0 \/ sq2 = 0 THEN [ok |-> TRUE, val |-> 0]
        ELSE [ok |-> TRUE,
              val |-> ISqrt(((dot * Scale) \div sq1) * ((dot * Scale) \div sq2))]

\* the similarity of every pair of descriptions, computed once
SimilarityTable ==
    [d \in Descriptions \X Descriptions |-> Similarity(d[1], d[2])]

calc_task_similarity(description_1, description_2) ==
    SimilarityTable[<<description_1, description_2>>]

\* ------------------------------------------------------------------ signals
\* mutant: the fraction taken of the user's interests, not of the task's tags
InterestOverUser(TP, UP, user, task) ==
    LET user_interested_properties == get_user_interested_properties(UP, user)
        common_properties ==
            get_task_properties(TP, task) \cap user_interested_properties
    IN  IF user_interested_properties # {}
        THEN (Cardinality(common_properties) * Scale)
                 \div Cardinality(user_interested_properties)
        ELSE 0

get_interest_based_score(TP, UP, user, task) ==
    LET user_interested_properties == get_user_interested_properties(UP, user)
        task_properties_ == get_task_properties(TP, task)
        common_properties == task_properties_ \cap user_interested_properties
    IN  IF task_properties_ # {}
        THEN (Cardinality(common_properties) * Scale) \div Cardinality(task_properties_)
        ELSE 0

\* The averaging loop shared by the history and the behaviour score: id_set is
\* the set the store returned, task the candidate (a row held in memory, so
\* its description is read from Tc, the rows as they were when the
\* candidates were read), T the table get_object_or_404 reads.
\* Result: [err |-> "none" | "Http404" | "ValueError", val |-> score].
AverageSimilarity(Tc, T, task, id_set) ==
    IF id_set = {} THEN [err |-> "none", val |-> 0]
    ELSE IF \E id \in id_set : ~Exists(T, id) THEN [err |-> "Http404", val |-> 0]
    ELSE IF \E id \in id_set :
                ~calc_task_similarity(Tc[task].description, T[id].description).ok
         THEN [err |-> "ValueError", val |-> 0]
    ELSE LET sim == [id \in id_set |->
                calc_task_similarity(Tc[task].description, T[id].description).val]
         IN  [err |-> "none", val |-> SumOver(sim, id_set) \div Cardinality(id_set)]

get_history_based_score(T, user, task) ==
    AverageSimilarity(T, T, task, get_user_completed_tasks(T, user))

get_behavior_based_score(T, UB, user, task) ==
    AverageSimilarity(T, T, task, get_user_liked_tasks(UB, user))

\* ------------------------------------------------------------------ normalisation
\* max(scores.values(), default=0)
MaxValue(scores) ==
    IF DOMAIN scores = {} THEN 0
    ELSE CHOOSE m \in Range(scores) : \A v \in Range(scores) : v <= m

\* np.mean(list(scores.values())), as the fraction sum / n (n = 0: nan)
np_mean(scores) ==
    [num |-> SumOver(scores, DOMAIN scores), den |-> Cardinality(DOMAIN scores)]

\* np.std(list(scores.values())), the population standard deviation, as the
\* fraction sqrt(n * sum(x^2) - sum(x)^2) / n (n = 0: nan)
np_std(scores) ==
    LET n == Cardinality(DOMAIN scores)
        s == SumOver(scores, DOMAIN scores)
        q == SumOver([t \in DOMAIN scores |-> scores[t] * scores[t]], DOMAIN scores)
    IN  [num |-> ISqrt(n * q - s * s), den |-> n]

\* truth value of a float: nan is true, zero is false
Truthy(x) == x.den = 0 \/ x.num # 0

\* [(score - mean)] / std
ZScore(score, mean, std) ==
    ((score * mean.den - mean.num) * std.den * Scale) \div (mean.den * std.num)

\* mutant: the raw interest scores passed on without the division by the maximum
InterestNotNormalized(interest) == interest

NormalizeInterest(interest) ==
    LET interest_score_max == MaxValue(interest)
    IN  [t \in DOMAIN interest |->
            IF interest_score_max # 0
            THEN (interest[t] * Scale) \div interest_score_max ELSE 0]

\* mutant: a zero deviation leaves the raw score in place
HistoryRawWhenFlat(history) ==
    LET history_score_mean == np_mean(history)
        history_score_std == np_std(history)
    IN  [t \in DOMAIN history |->
            IF Truthy(history_score_std)
            THEN ZScore(history[t], history_score_mean, history_score_std)
            ELSE history[t]]

NormalizeHistory(history) ==
    LET history_score_mean == np_mean(history)
        history_score_std == np_std(history)
    IN  [t \in DOMAIN history |->
            IF Truthy(history_score_std)
            THEN ZScore(history[t], history_score_mean, history_score_std) ELSE 0]

\* The comprehension of line 279 iterates history_scores.items(): the score
\* it standardises with the behaviour mean and deviation is the task's
\* history score.
NormalizeBehavior(behavior, history) ==
    LET behavior_score_mean == np_mean(behavior)
        behavior_score_std == np_std(behavior)
    IN  [t \in DOMAIN history |->
            IF Truthy(behavior_score_std)
            THEN ZScore(history[t], behavior_score_mean, behavior_score_std) ELSE 0]

FinalScores(ni, nh, nb) == [t \in DOMAIN ni |-> ni[t] + nh[t] + nb[t]]

\* mutant: ascending order (reverse=True forgotten)
InsertAsc(acc, x, key) ==
    LET k == Cardinality({ i \in DOMAIN acc : key[acc[i]] <= key[x] })
    IN  SubSeq(acc, 1, k) \o <<x>> \o SubSeq(acc, k + 1, Len(acc))

\* sorted(final_scores, key=final_scores.get, reverse=True): a stable sort,
\* so tasks of equal score keep the order of the dictionary, which is the
\* iteration order of all_active_task.
InsertDesc(acc, x, key) ==
    LET k == Cardinality({ i \in DOMAIN acc : key[acc[i]] >= key[x] })
    IN  SubSeq(acc, 1, k) \o <<x>> \o SubSeq(acc, k + 1, Len(acc))

RECURSIVE SortedDescFrom(_, _, _)
SortedDescFrom(acc, rest, key) ==
    IF rest = <<>> THEN acc
    ELSE SortedDescFrom(InsertDesc(acc, Head(rest), key), Tail(rest), key)

\* mutant: only the tasks of positive score are recommended
SortedPositive(order, key) ==
    SortedDescFrom(<<>>, SelectSeq(order, LAMBDA t : key[t] > 0), key)

SortedDesc(order, key) == SortedDescFrom(<<>>, order, key)

\* ------------------------------------------------------------------ the call
\* One pass of the scoring loop for a candidate: the history score is
\* computed before the behaviour score, and the first exception ends the call.
ScoreError(hist, beh) == IF hist.err # "none" THEN hist.err ELSE beh.err

\* The exceptions the scoring loop can end with: the loop stops at the first
\* candidate, in the iteration order of the set, whose scoring raises, and
\* any failing candidate can come first.
LoopErrors(T, UB, user, cand) ==
    { ScoreError(get_history_based_score(T, user, t),
                 get_behavior_based_score(T, UB, user, t)) : t \in cand } \ {"none"}

Empty == << >>

\* get_user_task_rank(user), the store not changing during the call
Rank(user) ==
    /\ pc = "idle"
    /\ caller' = user
    /\ all_active_task' = ActiveTasks(tasks)
    /\ UNCHANGED <<loop, deleter, api, tables, flight>>
    /\ LET cand == ActiveTasks(tasks)
           errors == LoopErrors(tasks, user_behaviors, user, cand)
       IN  IF errors # {}
           THEN /\ raised' \in errors
                /\ pc' = "raised"
                /\ UNCHANGED <<interest_scores, history_scores, behavior_scores,
                               normalized_interest_scores, normalized_history_score,
                               normalized_behavior_score, final_scores, task_ranking>>
           ELSE /\ raised' = "none"
                /\ pc' = "returned"
                /\ interest_scores' = [t \in cand |-> get_interest_based_score(
                                          task_properties, user_properties, user, t)]
                /\ history_scores' =
                       [t \in cand |-> get_history_based_score(tasks, user, t).val]
                /\ behavior_scores' = [t \in cand |->
                       get_behavior_based_score(tasks, user_behaviors, user, t).val]
                /\ normalized_interest_scores' = NormalizeInterest(interest_scores')
                /\ normalized_history_score' = NormalizeHistory(history_scores')
                /\ normalized_behavior_score' =
                       NormalizeBehavior(behavior_scores', history_scores')
                /\ final_scores' = FinalScores(normalized_interest_scores',
                                               normalized_history_score',
                                               normalized_behavior_score')
                /\ task_ranking' \in
                     { SortedDesc(order, final_scores') : order \in Orders(cand) }
    /\ UNCHANGED store

\* ------------------------------------------------------------------ stores
TaskRow(d, st, a, act) ==
    [description |-> d, status |-> st, assignee |-> a, is_active |-> act]

OpenRows == { TaskRow(d, NOT_STARTED, None, TRUE) : d \in Descriptions }

DoneRows == { TaskRow(d, DONE, "u1", FALSE) : d \in Descriptions }

TakenRows == { TaskRow(<<"fix", "ui">>, IN_PROGRESS, "u1", TRUE) }

UserPropertyRow(u, p, i) == [user |-> u, property |-> p, is_interested |-> i]

UserBehaviorRow(u, t, l) == [user |-> u, task |-> t, is_like |-> l]

\* Stores that vary the texts, the life cycle and the behaviour of u1; the
\* first task is tagged with one property u1 is interested in, the second
\* with that and one u1 is not interested in; u2 likes the first two tasks.
InitText ==
    /\ tasks \in [TaskIds -> OpenRows \cup DoneRows \cup TakenRows \cup {NoTask}]
    /\ task_properties =
         { r \in {<<1, 1>>, <<2, 1>>, <<2, 2>>} : Exists(tasks, r[1]) }
    /\ user_properties = { UserPropertyRow("u1", 1, TRUE),
                           UserPropertyRow("u1", 2, FALSE),
                           UserPropertyRow("u2", 2, TRUE) }
    /\ \E own \in {{}} \cup { {UserBehaviorRow("u1", t, l)} :
                               t \in { x \in TaskIds : Exists(tasks, x) },
                               l \in BOOLEAN } :
         user_behaviors =
             own \cup { UserBehaviorRow("u2", t, TRUE) :
                          t \in { x \in {1, 2} : Exists(tasks, x) } }

\* Stores that vary the tags of the open tasks and the interests of u1.
InitTags ==
    /\ tasks \in [TaskIds -> { TaskRow(<<"fix", "ui">>, NOT_STARTED, None, TRUE),
                               TaskRow(<<"fix", "a", "bug">>, DONE, "u1", FALSE),
                               NoTask }]
    /\ task_properties \in SUBSET (ActiveTasks(tasks) \X Props)
    /\ \E own \in [Props -> {"none", "interested", "not interested"}] :
         user_properties =
             { UserPropertyRow("u1", p, own[p] = "interested") :
                 p \in { x \in Props : own[x] # "none" } }
             \cup { UserPropertyRow("u2", 1, TRUE) }
    /\ user_behaviors = {}

CallInit ==
    /\ caller = None
    /\ pc = "idle"
    /\ all_active_task = {}
    /\ interest_scores = Empty
    /\ history_scores = Empty
    /\ behavior_scores = Empty
    /\ normalized_interest_scores = Empty
    /\ normalized_history_score = Empty
    /\ normalized_behavior_score = Empty
    /\ final_scores = Empty
    /\ task_ranking = Empty
    /\ raised = "none"
    /\ rows = Empty
    /\ pending = {}
    /\ cur = None
    /\ ids = {}
    /\ ids_len = 0
    /\ score_sum = 0
    /\ deleter = "ready"
    /\ request = NoRequest
    /\ instance = NoTask
    /\ response = NoResponse
    /\ user_profiles = {}
    /\ last_profile_id = 0
    /\ last_behavior_id = 0
    /\ in_flight = [p \in Procs |-> NotSent]
    /\ auth_users = {}
    /\ last_user_id = 0

Init == (InitText \/ InitTags) /\ CallInit /\ last_id = MaxTasks

Next == \E user \in Users : Rank(user)

Spec == Init /\ [][Next]_vars

\* ------------------------------------------------------------------ the call, query by query
\* The same call with every query of the store as a step of its own, so that
\* another request can change the store between two queries.

\* line 249: the candidates are read once and held as objects
RankStart(user) ==
    /\ pc = "idle"
    /\ caller' = user
    /\ all_active_task' = ActiveTasks(tasks)
    /\ rows' = [t \in ActiveTasks(tasks) |-> tasks[t]]
    /\ pending' = ActiveTasks(tasks)
    /\ interest_scores' = Empty
    /\ history_scores' = Empty
    /\ behavior_scores' = Empty
    /\ pc' = "loop"
    /\ UNCHANGED <<store, normalized_interest_scores, normalized_history_score,
                   normalized_behavior_score, final_scores, task_ranking, raised,
                   cur, ids, ids_len, score_sum, deleter, api, tables, flight>>

Put(scores, t, v) == [x \in DOMAIN scores \cup {t} |-> IF x = t THEN v ELSE scores[x]]

\* line 259: the next candidate of the set, and its interest score
ScoreInterest ==
    /\ pc = "loop"
    /\ \E task \in pending :
         /\ cur' = task
         /\ pending' = pending \ {task}
         /\ interest_scores' = Put(interest_scores, task,
                get_interest_based_score(task_properties, user_properties,
                                         caller, task))
    /\ pc' = "history"
    /\ UNCHANGED <<store, caller, all_active_task, history_scores, behavior_scores,
                   normalized_interest_scores, normalized_history_score,
                   normalized_behavior_score, final_scores, task_ranking, raised,
                   rows, ids, ids_len, score_sum, deleter, api, tables, flight>>

\* lines 201-204 and 227-229: the id query of a score call
QueryIds(at, found, scores, next) ==
    /\ pc = at
    /\ IF found = {}
       THEN /\ scores' = Put(scores, cur, 0)
            /\ pc' = next
            /\ UNCHANGED <<ids, ids_len, score_sum>>
       ELSE /\ ids' = found
            /\ ids_len' = Cardinality(found)
            /\ score_sum' = 0
            /\ pc' = at \o "_loop"
            /\ UNCHANGED scores

\* mutant: an id that resolves to no row is skipped (filter(pk=id).first()
\* and continue, instead of get_object_or_404)
ResolveIdSkipping(at, scores, next) ==
    /\ pc = at \o "_loop"
    /\ \E id \in ids :
         LET sim == IF Exists(tasks, id)
                    THEN calc_task_similarity(rows[cur].description,
                                              tasks[id].description)
                    ELSE [ok |-> TRUE, val |-> 0]
         IN  IF ~sim.ok
             THEN /\ raised' = "ValueError"
                  /\ pc' = "raised"
                  /\ UNCHANGED <<ids, score_sum, scores>>
             ELSE /\ score_sum' = score_sum + sim.val
                  /\ ids' = ids \ {id}
                  /\ raised' = raised
                  /\ IF ids' = {}
                     THEN /\ scores' = Put(scores, cur, score_sum' \div ids_len)
                          /\ pc' = next
                     ELSE /\ pc' = pc
                          /\ UNCHANGED scores

\* lines 208-212 and 231-235: one pass of the loop of a score call, and its
\* return after the last pass
ResolveId(at, scores, next) ==
    /\ pc = at \o "_loop"
    /\ \E id \in ids :
         IF ~Exists(tasks, id)
         THEN /\ raised' = "Http404"
              /\ pc' = "raised"
              /\ UNCHANGED <<ids, score_sum, scores>>
         ELSE LET sim == calc_task_similarity(rows[cur].description,
                                              tasks[id].description)
              IN  IF ~sim.ok
                  THEN /\ raised' = "ValueError"
                       /\ pc' = "raised"
                       /\ UNCHANGED <<ids, score_sum, scores>>
                  ELSE /\ score_sum' = score_sum + sim.val
                       /\ ids' = ids \ {id}
                       /\ raised' = raised
                       /\ IF ids' = {}
                          THEN /\ scores' = Put(scores, cur, score_sum' \div ids_len)
                               /\ pc' = next
                          ELSE /\ pc' = pc
                               /\ UNCHANGED scores

HistoryQuery ==
    /\ QueryIds("history", get_user_completed_tasks(tasks, caller),
                history_scores, "behavior")
    /\ UNCHANGED <<store, caller, all_active_task, interest_scores, behavior_scores,
                   normalized_interest_scores, normalized_history_score,
                   normalized_behavior_score, final_scores, task_ranking, raised,
                   rows, pending, cur, deleter, api, tables, flight>>

HistoryResolve ==
    /\ ResolveId("history", history_scores, "behavior")
    /\ UNCHANGED <<store, caller, all_active_task, interest_scores, behavior_scores,
                   normalized_interest_scores, normalized_history_score,
                   normalized_behavior_score, final_scores, task_ranking,
                   rows, pending, cur, ids_len, deleter, api, tables, flight>>

BehaviorQuery ==
    /\ QueryIds("behavior", get_user_liked_tasks(user_behaviors, caller),
                behavior_scores, "loop")
    /\ UNCHANGED <<store, caller, all_active_task, interest_scores, history_scores,
                   normalized_interest_scores, normalized_history_score,
                   normalized_behavior_score, final_scores, task_ranking, raised,
                   rows, pending, cur, deleter, api, tables, flight>>

BehaviorResolve ==
    /\ ResolveId("behavior", behavior_scores, "loop")
    /\ UNCHANGED <<store, caller, all_active_task, interest_scores, history_scores,
                   normalized_interest_scores, normalized_history_score,
                   normalized_behavior_score, final_scores, task_ranking,
                   rows, pending, cur, ids_len, deleter, api, tables, flight>>

\* lines 263-290: after the last candidate, normalise, sum, sort and return
RankFinish ==
    /\ pc = "loop"
    /\ pending = {}
    /\ normalized_interest_scores' = NormalizeInterest(interest_scores)
    /\ normalized_history_score' = NormalizeHistory(history_scores)
    /\ normalized_behavior_score' = NormalizeBehavior(behavior_scores, history_scores)
    /\ final_scores' = FinalScores(normalized_interest_scores',
                                   normalized_history_score',
                                   normalized_behavior_score')
    /\ task_ranking' \in
         { SortedDesc(order, final_scores') : order \in Orders(all_active_task) }
    /\ pc' = "returned"
    /\ UNCHANGED <<store, caller, all_active_task, interest_scores, history_scores,
                   behavior_scores, raised, loop, deleter, api, tables, flight>>

\* A DELETE of a task by another request while the call runs: the row goes,
\* and with it (on_delete=CASCADE) its TaskProperty and UserBehavior rows.
DeleteTask(t) ==
    /\ pc \notin {"idle", "returned", "raised"}
    /\ deleter = "ready"
    /\ Exists(tasks, t)
    /\ tasks' = [tasks EXCEPT ![t] = NoTask]
    /\ task_properties' = { r \in task_properties : r[1] # t }
    /\ user_behaviors' = { r \in user_behaviors : r.task # t }
    /\ deleter' = "done"
    /\ UNCHANGED <<user_properties, call, loop, api, tables, flight>>

\* Stores for the interleaved call: open and completed tasks, up to two
\* likes of u1.
InitConc ==
    /\ tasks \in [TaskIds -> { TaskRow(<<"fix", "ui">>, NOT_STARTED, None, TRUE),
                               TaskRow(<<"fix", "a", "bug">>, NOT_STARTED, None, TRUE),
                               TaskRow(<<"fix", "a", "bug">>, DONE, "u1", FALSE),
                               NoTask }]
    /\ task_properties =
         { r \in {<<1, 1>>, <<2, 1>>, <<2, 2>>} : Exists(tasks, r[1]) }
    /\ user_properties = { UserPropertyRow("u1", 1, TRUE) }
    /\ \E liked \in { x \in SUBSET TaskIds : Cardinality(x) <= 2 } :
         user_behaviors = { UserBehaviorRow("u1", t, TRUE) :
                              t \in { x \in liked : Exists(tasks, x) } }
    /\ CallInit
    /\ last_id = MaxTasks

NextConc ==
    \/ \E user \in {"u1"} : RankStart(user)
    \/ ScoreInterest
    \/ HistoryQuery
    \/ HistoryResolve
    \/ BehaviorQuery
    \/ BehaviorResolve
    \/ RankFinish
    \/ \E t \in TaskIds : DeleteTask(t)

SpecConc == InitConc /\ [][NextConc]_vars

\* ------------------------------------------------------------------ the HTTP interface
\* TaskViewSet (views.py) with TaskSerializer (serializers.py) and the
\* permission classes (permissions.py).  A request is answered in one step;
\* Respond hands the response to the client before the next request.

\* users with an 'employer' UserProfile; Users are the ones with an
\* 'employee' profile
Employers == {"e1", "e2"}

\* a superuser (createsuperuser), who has no UserProfile row
Admin == "admin"

AnonymousUser == "AnonymousUser"

Requesters == Users \cup Employers \cup {Admin, AnonymousUser}

is_authenticated(user) == user # AnonymousUser

is_superuser(user) == user = Admin

\* the user has a UserProfile row (request.user.profile)
HasProfile(user) == user \in Users \cup Employers

\* profile.is_employer
is_employer(user) == user \in Employers

SAFE_METHODS == {"GET", "HEAD", "OPTIONS"}

\* timezone.now()
Now == "now"

\* a dict: a function from its keys
EmptyData == [k \in {} |-> TRUE]

Has(data, field) == field \in DOMAIN data

\* dict.update
Merge(a, b) == [k \in DOMAIN a \cup DOMAIN b |-> IF k \in DOMAIN b THEN b[k] ELSE a[k]]

\* ---- permissions.py
IsAuthenticated(user) == is_authenticated(user)

IsEmployer(user) ==
    IF ~is_authenticated(user) THEN FALSE
    ELSE HasProfile(user) /\ is_employer(user)

IsEmployee(user) ==
    IF ~is_authenticated(user) THEN FALSE
    ELSE HasProfile(user) /\ ~is_employer(user)

\* mutant: the object check stops at "is an employer"
IsAnyEmployerOrReadOnly(method, user, obj) ==
    IF method \in SAFE_METHODS THEN TRUE
    ELSE IF ~is_authenticated(user) THEN FALSE
    ELSE IF HasProfile(user) /\ ~is_employer(user) THEN FALSE
    ELSE TRUE

IsTaskOwnerOrReadOnly(method, user, obj) ==
    IF method \in SAFE_METHODS THEN TRUE
    ELSE IF ~is_authenticated(user) THEN FALSE
    ELSE IF HasProfile(user) /\ ~is_employer(user) THEN FALSE
    ELSE obj.owner = user

\* IsSuperuser is used by views.py and defined in none of the files at hand
IsSuperuser(user) == is_authenticated(user) /\ is_superuser(user)

\* ---- serializers.py, TaskSerializer
ReadOnlyFields ==
    {"status", "owner", "is_active", "created_on", "updated_on",
     "submitted_on", "approved_on"}

\* Meta.fields, the order in which validated_data holds the writable fields
WritableFields ==
    <<"name", "description", "output", "assignee", "is_submitted", "is_approved">>

RequiredFields == {"name", "description"}

\* to_internal_value: read-only fields of the request are dropped
to_internal_value(data) ==
    [k \in DOMAIN data \ ReadOnlyFields |-> data[k]]

\* a field of extra_kwargs 'required': True missing from a non-partial request
RequiredErrors(method, data) ==
    IF method = "PATCH" THEN EmptyData
    ELSE [k \in RequiredFields \ DOMAIN data |-> "This field is required."]

\* mutant: the check of the three detail fields stops at "is an employer"
DetailErrorsAnyEmployer(user, task, data) ==
    IF ~is_employer(user)
    THEN [field \in {"name", "description", "output"} \cap DOMAIN data |->
             "Your do not have the permission to change this field."]
    ELSE EmptyData

\* lines 76-81
DetailErrors(user, task, data) ==
    IF ~is_employer(user)
    THEN [field \in {"name", "description", "output"} \cap DOMAIN data |->
             "Your do not have the permission to change this field."]
    ELSE IF task.owner # user
    THEN [field \in {"name", "description", "output"} \cap DOMAIN data |->
             "Only the owner of the task can change this field."]
    ELSE EmptyData

\* mutant: an employee may hand an unassigned task to anybody
AssigneeErrorsAnyTarget(user, task, data) ==
    IF ~Has(data, "assignee") THEN EmptyData
    ELSE IF task.assignee # None
    THEN IF task.assignee # user
         THEN [assignee |-> "Only the current task assignee can change this field."]
         ELSE IF data.assignee # None
         THEN [assignee |-> "You can only unassign yourself from the task."]
         ELSE EmptyData
    ELSE IF is_employer(user)
    THEN [assignee |-> "You do not have the permission to change the assignee."]
    ELSE EmptyData

\* lines 83-98
AssigneeErrors(user, task, data) ==
    IF ~Has(data, "assignee") THEN EmptyData
    ELSE IF task.assignee # None
    THEN IF task.assignee # user
         THEN [assignee |-> "Only the current task assignee can change this field."]
         ELSE IF data.assignee # None
         THEN [assignee |-> "You can only unassign yourself from the task."]
         ELSE EmptyData
    ELSE IF is_employer(user)
    THEN [assignee |-> "You do not have the permission to change the assignee."]
    ELSE IF data.assignee # None /\ data.assignee # user
    THEN [assignee |-> "You can only assign the task to yourself."]
    ELSE EmptyData

\* lines 100-107
SubmitErrors(user, task, data) ==
    IF ~Has(data, "is_submitted") THEN EmptyData
    ELSE IF is_employer(user)
    THEN [is_submitted |-> "You don't have the permission to change this field."]
    ELSE IF task.status = NOT_STARTED
    THEN [is_submitted |-> "Cannot submit before the task is started."]
    ELSE IF task.assignee # user
    THEN [is_submitted |-> "Only the task assignee can change this field."]
    ELSE EmptyData

\* mutant: the approval check forgets the owner
ApproveErrorsAnyEmployer(user, task, data) ==
    IF ~Has(data, "is_approved") THEN EmptyData
    ELSE IF ~is_employer(user)
    THEN [is_approved |-> "You don't have the permission to change this field."]
    ELSE IF task.status = NOT_STARTED \/ task.status = IN_PROGRESS
    THEN [is_approved |-> "Cannot approve before the task is submitted."]
    ELSE EmptyData

\* mutant: the approval check forgets the status of the task
ApproveErrorsAnyStatus(user, task, data) ==
    IF ~Has(data, "is_approved") THEN EmptyData
    ELSE IF ~is_employer(user)
    THEN [is_approved |-> "You don't have the permission to change this field."]
    ELSE IF task.owner # user
    THEN [is_approved |-> "Only the task owner can change this field."]
    ELSE EmptyData

\* lines 109-116
ApproveErrors(user, task, data) ==
    IF ~Has(data, "is_approved") THEN EmptyData
    ELSE IF ~is_employer(user)
    THEN [is_approved |-> "You don't have the permission to change this field."]
    ELSE IF task.status = NOT_STARTED \/ task.status = IN_PROGRESS
    THEN [is_approved |-> "Cannot approve before the task is submitted."]
    ELSE IF task.owner # user
    THEN [is_approved |-> "Only the task owner can change this field."]
    ELSE EmptyData

\* TaskSerializer.validate for a PUT or PATCH: the dict of errors it raises,
\* empty when it returns the data
validate(user, task, data) ==
    Merge(Merge(Merge(DetailErrors(user, task, data),
                      AssigneeErrors(user, task, data)),
                SubmitErrors(user, task, data)),
          ApproveErrors(user, task, data))

\* lines 131-149: one pass of the loop over validated_data
ApplyField(obj, attr, value) ==
    IF attr = "assignee"
    THEN [obj EXCEPT !.status = IF value = None THEN NOT_STARTED ELSE IN_PROGRESS,
                          !.assignee = value]
    ELSE IF attr = "is_submitted" /\ value
    THEN [obj EXCEPT !.status = IN_REVIEW, !.submitted_on = Now]
    ELSE IF attr = "is_approved" /\ value
    THEN [obj EXCEPT !.status = DONE, !.approved_on = Now, !.is_active = FALSE]
    ELSE [obj EXCEPT ![attr] = value]

RECURSIVE ApplyFrom(_, _, _)
\* the loop over validated_data.items(), from the i-th writable field on
ApplyFrom(obj, validated_data, i) ==
    IF i > Len(WritableFields) THEN obj
    ELSE IF Has(validated_data, WritableFields[i])
    THEN ApplyFrom(ApplyField(obj, WritableFields[i],
                              validated_data[WritableFields[i]]),
                   validated_data, i + 1)
    ELSE ApplyFrom(obj, validated_data, i + 1)

\* mutant: the check of is_active is missing
updateInactiveToo(obj, validated_data) ==
    [ok |-> TRUE, instance |-> ApplyFrom(obj, validated_data, 1)]

\* TaskSerializer.update: the saved obj, or the ValidationError
update(obj, validated_data) ==
    IF ~obj.is_active
    THEN [ok |-> FALSE, instance |-> obj]
    ELSE [ok |-> TRUE, instance |-> ApplyFrom(obj, validated_data, 1)]

\* ---- models.py, Task: the defaults of a new row
TaskDefaults ==
    [name |-> "", description |-> <<>>, output |-> "", status |-> NOT_STARTED,
     assignee |-> None, owner |-> None, is_submitted |-> FALSE,
     is_approved |-> FALSE, is_active |-> TRUE, submitted_on |-> None,
     approved_on |-> None]

\* ModelSerializer.create under perform_create: serializer.save(owner=user)
create(user, validated_data) ==
    Merge(Merge(TaskDefaults, validated_data), [owner |-> user])

\* ---- views.py, TaskViewSet
Response(code, errs, msg) == [status |-> code, errors |-> errs, detail |-> msg]

Request(m, u, t, d) == [method |-> m, user |-> u, task |-> t, data |-> d]

Forbidden == Response(403, EmptyData, "You do not have permission to perform this action.")

Idle == request = NoRequest

\* the bodies of the PUT and PATCH requests that are sent
UpdateTexts ==
    { EmptyData,
      [name |-> "studying"],
      [name |-> "studying", description |-> <<"study", "physics">>,
       output |-> "a paper review"] }

UpdateFlags ==
    { EmptyData,
      [assignee |-> None], [assignee |-> "u1"],
      [is_submitted |-> TRUE],
      [is_approved |-> TRUE], [is_approved |-> FALSE],
      [assignee |-> None, is_submitted |-> TRUE],
      [is_submitted |-> TRUE, is_approved |-> TRUE] }

\* fields sent together with the detail fields
ExtraFlags ==
    { EmptyData, [assignee |-> "u1"], [is_submitted |-> TRUE], [is_approved |-> TRUE] }

\* PATCH: any of the fields, alone or together; PUT: the whole
\* representation, or one that lacks a required field
UpdateRequests ==
    { [method |-> "PATCH", data |-> b] : b \in UpdateFlags }
    \cup { [method |-> "PATCH", data |-> Merge(a, b)] :
              a \in UpdateTexts \ {EmptyData}, b \in ExtraFlags }
    \cup { [method |-> "PUT", data |-> Merge(a, b)] :
              a \in UpdateTexts \ {EmptyData}, b \in ExtraFlags \ {[is_submitted |-> TRUE]} }

\* the bodies of the POST requests that are sent
CreateData ==
    { [name |-> "cleaning", description |-> <<"clean", "bedroom">>],
      [name |-> "cleaning", description |-> <<"clean", "bedroom">>, owner |-> "e2"],
      [name |-> "cleaning", description |-> <<"clean", "bedroom">>,
       assignee |-> "u1"],
      [name |-> "cleaning", description |-> <<"clean", "bedroom">>,
       assignee |-> "e2"],
      [name |-> "cleaning"] }

\* what is_valid() and save() make of validated_data
SaveOutcome(user, obj, validated_data) ==
    IF DOMAIN validate(user, obj, validated_data) # {}
    THEN [response |-> Response(400, validate(user, obj, validated_data), ""),
          instance |-> obj]
    ELSE IF ~update(obj, validated_data).ok
    THEN [response |-> Response(400, EmptyData, "You cannot update an inactive task"),
          instance |-> obj]
    ELSE [response |-> Response(200, EmptyData, ""),
          instance |-> update(obj, validated_data).instance]

\* the answer of update / partial_update and the row it leaves
UpdateOutcome(method, user, obj, data) ==
    IF ~IsAuthenticated(user) THEN [response |-> Forbidden, instance |-> obj]
    ELSE IF DOMAIN RequiredErrors(method, data) # {}
    THEN [response |-> Response(400, RequiredErrors(method, data), ""),
          instance |-> obj]
    ELSE IF ~HasProfile(user)
    THEN [response |-> Response(500, EmptyData, "UserProfile.DoesNotExist"),
          instance |-> obj]
    ELSE SaveOutcome(user, obj, to_internal_value(data))

\* PUT / PATCH /tasks/<t>/
UpdateTask(method, user, t, data) ==
    /\ Idle
    /\ Exists(tasks, t)
    /\ request' = Request(method, user, t, data)
    /\ instance' = tasks[t]
    /\ \E outcome \in {UpdateOutcome(method, user, tasks[t], data)} :
         /\ response' = outcome.response
         /\ tasks' = [tasks EXCEPT ![t] = outcome.instance]
    /\ UNCHANGED <<task_properties, user_properties, user_behaviors, call, loop,
                   deleter, last_id, tables, flight>>

\* POST /tasks/
CreateTask(user, data) ==
    /\ Idle
    /\ last_id < MaxCreated
    /\ request' = Request("POST", user, None, data)
    /\ instance' = NoTask
    /\ IF ~IsEmployer(user)
       THEN /\ response' = Forbidden
            /\ UNCHANGED <<tasks, last_id>>
       ELSE IF DOMAIN RequiredErrors("POST", data) # {}
       THEN /\ response' = Response(400, RequiredErrors("POST", data), "")
            /\ UNCHANGED <<tasks, last_id>>
       ELSE /\ response' = Response(201, EmptyData, "")
            /\ last_id' = last_id + 1
            /\ tasks' = [tasks EXCEPT ![last_id + 1] =
                             create(user, to_internal_value(data))]
    /\ UNCHANGED <<task_properties, user_properties, user_behaviors, call, loop,
                   deleter, tables, flight>>

\* DELETE /tasks/<t>/  (permission_classes = [IsTaskOwnerOrReadOnly|IsSuperuser])
DestroyTask(user, t) ==
    /\ Idle
    /\ Exists(tasks, t)
    /\ request' = Request("DELETE", user, t, EmptyData)
    /\ instance' = tasks[t]
    /\ IF IsTaskOwnerOrReadOnly("DELETE", user, tasks[t]) \/ IsSuperuser(user)
       THEN /\ response' = Response(204, EmptyData, "")
            /\ tasks' = [tasks EXCEPT ![t] = NoTask]
            /\ task_properties' = { r \in task_properties : r[1] # t }
            /\ user_behaviors' = { r \in user_behaviors : r.task # t }
       ELSE /\ response' = Forbidden
            /\ UNCHANGED <<tasks, task_properties, user_behaviors>>
    /\ UNCHANGED <<user_properties, call, loop, deleter, last_id, tables, flight>>

\* TaskViewSet.retrieve: whether the task is served
retrieve(user, obj) ==
    IF ~is_superuser(user)
    THEN IF ~HasProfile(user) THEN FALSE
         ELSE IF is_employer(user) /\ obj.owner # user THEN FALSE
         ELSE IF obj.assignee # None /\ obj.assignee # user THEN FALSE
         ELSE TRUE
    ELSE TRUE

\* GET /tasks/<t>/
RetrieveTask(user, t) ==
    /\ Idle
    /\ Exists(tasks, t)
    /\ request' = Request("GET", user, t, EmptyData)
    /\ instance' = tasks[t]
    /\ response' = IF retrieve(user, tasks[t])
                   THEN Response(200, EmptyData, "")
                   ELSE Response(403, EmptyData,
                           "You do not have access to the requested task's information")
    /\ UNCHANGED <<store, call, loop, deleter, last_id, tables, flight>>

\* TaskViewSet.list: the queryset the requester is shown
list(user, T) ==
    IF is_superuser(user) THEN AllTasks(T)
    ELSE IF ~HasProfile(user) THEN {}
    ELSE IF is_employer(user) THEN { t \in AllTasks(T) : T[t].owner = user }
    ELSE { t \in AllTasks(T) : T[t].assignee = None \/ T[t].assignee = user }

\* GET /tasks/  (one page holds every task of the queryset)
ListTasks(user) ==
    /\ Idle
    /\ request' = Request("GET", user, None, EmptyData)
    /\ instance' = NoTask
    /\ response' = [status |-> 200, errors |-> EmptyData, detail |-> "",
                    count |-> Cardinality(list(user, tasks)),
                    results |-> list(user, tasks)]
    /\ UNCHANGED <<store, call, loop, deleter, last_id, tables, flight>>

\* the response goes out; the next request can be answered
Respond ==
    /\ ~Idle
    /\ request' = NoRequest
    /\ instance' = NoTask
    /\ response' = NoResponse
    /\ UNCHANGED <<store, call, loop, deleter, last_id, tables, flight>>

\* an empty store
InitApi ==
    /\ tasks = [t \in TaskIds |-> NoTask]
    /\ task_properties = {}
    /\ user_properties = {}
    /\ user_behaviors = {}
    /\ CallInit
    /\ last_id = 0

NextApi ==
    \/ \E r \in UpdateRequests, user \in Requesters, t \in TaskIds :
          UpdateTask(r.method, user, t, r.data)
    \/ \E user \in Requesters, data \in CreateData : CreateTask(user, data)
    \/ \E user \in Requesters, t \in TaskIds : DestroyTask(user, t)
    \/ \E user \in Requesters, t \in TaskIds : RetrieveTask(user, t)
    \/ \E user \in Requesters : ListTasks(user)
    \/ Respond

SpecApi == InitApi /\ [][NextApi]_vars

\* ------------------------------------------------------------------ user profiles
\* UserProfileViewSet (views.py) with UserProfileSerializer.  The users are
\* Users and Admin; none of them has a profile at the start.

ProfileIds == 1..3

ProfileUsers == Users \cup {Admin}

\* User.objects.filter(id=user.id).exists(): no request deletes a user
UserExists(user) == user \in ProfileUsers

\* queryset.get(pk=id), or NoTask for Http404
get_profile(P, id) ==
    IF \E r \in P : r.id = id THEN CHOOSE r \in P : r.id = id ELSE NoTask

\* ---- permissions.py
IsUserOrReadOnly(method, user, obj) ==
    IF method \in SAFE_METHODS THEN TRUE
    ELSE IF ~is_authenticated(user) THEN FALSE
    ELSE obj.user = user

\* mutant: the user field carries no UniqueValidator
ProfileFieldErrorsNotUnique(P, data) ==
    IF ~Has(data, "user") THEN [user |-> "This field is required."]
    ELSE EmptyData

\* field validation of UserProfileSerializer: user is required and, being a
\* OneToOneField, unique
ProfileFieldErrors(P, data) ==
    IF ~Has(data, "user") THEN [user |-> "This field is required."]
    ELSE IF \E r \in P : r.user = data.user
    THEN [user |-> "user profile with this user already exists."]
    ELSE EmptyData

\* UserProfileSerializer.validate for a POST
UserProfileSerializer_validate(user, data) ==
    IF data.user # None /\ data.user # user
    THEN [user |-> "You can only set profile for yourself."]
    ELSE EmptyData

\* the bodies of the profile requests
ProfileData ==
    { EmptyData, [is_employer |-> TRUE] }
    \cup { [user |-> u] : u \in ProfileUsers }
    \cup { [user |-> u, is_employer |-> b] : u \in ProfileUsers, b \in BOOLEAN }

\* POST /user_profiles/  (permission_classes = [IsAuthenticated])
CreateProfile(user, data) ==
    /\ Idle
    /\ request' = Request("POST", user, None, data)
    /\ instance' = NoTask
    /\ IF ~IsAuthenticated(user)
       THEN /\ response' = Forbidden
            /\ UNCHANGED tables
       ELSE IF DOMAIN ProfileFieldErrors(user_profiles, data) # {}
       THEN /\ response' = Response(400, ProfileFieldErrors(user_profiles, data), "")
            /\ UNCHANGED tables
       ELSE IF DOMAIN UserProfileSerializer_validate(user, data) # {}
       THEN /\ response' = Response(400, UserProfileSerializer_validate(user, data), "")
            /\ UNCHANGED tables
       ELSE /\ response' = Response(201, EmptyData, "")
            /\ last_profile_id' = last_profile_id + 1
            /\ user_profiles' = user_profiles \cup
                  { [id |-> last_profile_id + 1, user |-> data.user,
                     is_employer |-> IF Has(data, "is_employer")
                                     THEN data.is_employer ELSE FALSE] }
            /\ UNCHANGED last_behavior_id
    /\ UNCHANGED <<store, call, loop, deleter, last_id, flight>>

\* PUT and PATCH /user_profiles/<id>/: update and partial_update answer
\* without fetching the profile
UpdateProfile(method, user, id, data) ==
    /\ Idle
    /\ request' = Request(method, user, id, data)
    /\ instance' = NoTask
    /\ response' = Response(403, [error |-> "UserProfile cannot be modified once set."], "")
    /\ UNCHANGED <<store, call, loop, deleter, last_id, tables, flight>>

\* DELETE /user_profiles/<id>/  (permission_classes = [IsUserOrReadOnly|IsSuperuser])
DestroyProfile(user, id) ==
    /\ Idle
    /\ request' = Request("DELETE", user, id, EmptyData)
    /\ instance' = get_profile(user_profiles, id)
    /\ IF get_profile(user_profiles, id) = NoTask
       THEN /\ response' = Response(404, EmptyData, "Not found.")
            /\ UNCHANGED tables
       ELSE IF ~( IsUserOrReadOnly("DELETE", user, get_profile(user_profiles, id))
                  \/ IsSuperuser(user) )
       THEN /\ response' = Forbidden
            /\ UNCHANGED tables
       ELSE IF UserExists(get_profile(user_profiles, id).user)
       THEN /\ response' = Response(400,
                  [error |-> "Cannot delete profile while the user exists."], "")
            /\ UNCHANGED tables
       ELSE /\ response' = Response(204, EmptyData, "")
            /\ user_profiles' = user_profiles \ {get_profile(user_profiles, id)}
            /\ UNCHANGED <<last_profile_id, last_behavior_id>>
    /\ UNCHANGED <<store, call, loop, deleter, last_id, flight>>

NextProfile ==
    \/ \E user \in ProfileUsers \cup {AnonymousUser}, data \in ProfileData :
          CreateProfile(user, data)
    \/ \E method \in {"PUT", "PATCH"}, user \in ProfileUsers \cup {AnonymousUser},
          id \in ProfileIds, data \in {[is_employer |-> TRUE], [is_employer |-> FALSE]} :
          UpdateProfile(method, user, id, data)
    \/ \E user \in ProfileUsers \cup {AnonymousUser}, id \in ProfileIds :
          DestroyProfile(user, id)
    \/ Respond

SpecProfile == InitApi /\ [][NextProfile]_vars

\* ------------------------------------------------------------------ user behaviours
\* UserBehaviorViewSet (views.py) with UserBehaviorSerializer.  A row of
\* user_behaviors carries its id here, since a request names the row by id.

BehaviorIds == 1..4

\* the tasks a behaviour can name: two stored ones and one that is not stored
BehaviorTasks == {1, 2, 3}

BehaviorRow(id, u, t, l) == [id |-> id, user |-> u, task |-> t, is_like |-> l]

\* queryset.get(pk=id), or NoTask for Http404
get_behavior(B, id) ==
    IF \E r \in B : r.id = id THEN CHOOSE r \in B : r.id = id ELSE NoTask

\* field validation of UserBehaviorSerializer: user and task are required
\* by a non-partial request, and task must be the pk of a stored task
BehaviorFieldErrors(method, T, data) ==
    Merge([k \in (IF method = "PATCH" THEN {} ELSE {"user", "task"} \ DOMAIN data)
              |-> "This field is required."],
          IF Has(data, "task") /\ ~Exists(T, data.task)
          THEN [task |-> "Invalid pk - object does not exist."]
          ELSE EmptyData)

\* the values the validators see: those of the request, and for an update
\* those of the row where the request has none
FilledIn(obj, data) ==
    IF obj = NoTask THEN data
    ELSE [k \in {"user", "task"} \cup DOMAIN data |->
             IF k \in DOMAIN data THEN data[k] ELSE obj[k]]

\* mutant: the uniqueness of (user, task) is checked for a create only
UniqueTogetherOnCreate(B, obj, data) ==
    IF obj = NoTask /\ \E r \in B : r.user = data.user /\ r.task = data.task
    THEN [non_field_errors |-> "The fields user, task must make a unique set."]
    ELSE EmptyData

\* UniqueTogetherValidator of Meta.unique_together = ('user', 'task'); a row
\* does not collide with itself
UniqueTogether(B, obj, data) ==
    IF \E r \in B \ {obj} : /\ r.user = FilledIn(obj, data).user
                             /\ r.task = FilledIn(obj, data).task
    THEN [non_field_errors |-> "The fields user, task must make a unique set."]
    ELSE EmptyData

\* UserBehaviorSerializer.validate
UserBehaviorSerializer_validate(method, user, obj, data) ==
    LET original_user == IF obj # NoTask THEN obj.user ELSE None
        new_user == IF Has(data, "user") THEN data.user ELSE original_user
    IN  IF method = "POST"
        THEN IF new_user # None /\ new_user # user
             THEN [user |-> "You can only set a behavior for yourself."]
             ELSE EmptyData
        ELSE IF new_user # None /\ new_user # obj.user
             THEN [user |-> "You cannot remap your behavior to someone else."]
             ELSE EmptyData

\* is_valid(): the first of the three stages that has errors
BehaviorErrors(method, user, T, B, obj, data) ==
    IF DOMAIN BehaviorFieldErrors(method, T, data) # {}
    THEN BehaviorFieldErrors(method, T, data)
    ELSE IF DOMAIN UniqueTogether(B, obj, data) # {}
    THEN UniqueTogether(B, obj, data)
    ELSE UserBehaviorSerializer_validate(method, user, obj, data)

\* the bodies of the behaviour requests
BehaviorCreateData ==
    { [user |-> u, task |-> t, is_like |-> l] :
          u \in Users, t \in BehaviorTasks, l \in BOOLEAN }
    \cup { EmptyData, [user |-> "u1"] }

BehaviorPutData ==
    { [user |-> u, task |-> t, is_like |-> FALSE] : u \in Users, t \in {1, 2} }
    \cup { [user |-> "u1"] }

BehaviorPatchData ==
    { [is_like |-> FALSE] }
    \cup { [task |-> t] : t \in BehaviorTasks }
    \cup { [user |-> u] : u \in Users }

\* POST /user_behaviors/  (permission_classes = [IsEmployee])
CreateBehavior(user, data) ==
    /\ Idle
    /\ request' = Request("POST", user, None, data)
    /\ instance' = NoTask
    /\ IF ~IsEmployee(user)
       THEN /\ response' = Forbidden
            /\ UNCHANGED <<user_behaviors, last_behavior_id>>
       ELSE IF DOMAIN BehaviorErrors("POST", user, tasks, user_behaviors, NoTask, data) # {}
       THEN /\ response' = Response(400,
                  BehaviorErrors("POST", user, tasks, user_behaviors, NoTask, data), "")
            /\ UNCHANGED <<user_behaviors, last_behavior_id>>
       ELSE /\ response' = Response(201, EmptyData, "")
            /\ last_behavior_id' = last_behavior_id + 1
            /\ user_behaviors' = user_behaviors \cup
                  { BehaviorRow(last_behavior_id + 1, data.user, data.task, data.is_like) }
    /\ UNCHANGED <<tasks, task_properties, user_properties, call, loop, deleter,
                   last_id, user_profiles, last_profile_id, flight>>

\* PUT and PATCH /user_behaviors/<id>/  (permission_classes = [IsUserOrReadOnly])
UpdateBehavior(method, user, id, data) ==
    /\ Idle
    /\ request' = Request(method, user, id, data)
    /\ instance' = get_behavior(user_behaviors, id)
    /\ LET obj == get_behavior(user_behaviors, id)
       IN  IF obj = NoTask
           THEN /\ response' = Response(404, EmptyData, "Not found.")
                /\ UNCHANGED user_behaviors
           ELSE IF ~IsUserOrReadOnly(method, user, obj)
           THEN /\ response' = Forbidden
                /\ UNCHANGED user_behaviors
           ELSE IF DOMAIN BehaviorErrors(method, user, tasks, user_behaviors, obj, data) # {}
           THEN /\ response' = Response(400,
                      BehaviorErrors(method, user, tasks, user_behaviors, obj, data), "")
                /\ UNCHANGED user_behaviors
           ELSE /\ response' = Response(200, EmptyData, "")
                /\ user_behaviors' = (user_behaviors \ {obj}) \cup {Merge(obj, data)}
    /\ UNCHANGED <<tasks, task_properties, user_properties, call, loop, deleter,
                   last_id, tables, flight>>

\* two tasks of employer e1 are stored, and no behaviour
InitBehavior ==
    /\ tasks = [t \in TaskIds |->
                  IF t <= 2
                  THEN create("e1", [name |-> "cleaning",
                                     description |-> <<"clean", "bedroom">>])
                  ELSE NoTask]
    /\ task_properties = {}
    /\ user_properties = {}
    /\ user_behaviors = {}
    /\ CallInit
    /\ last_id = 2

\* the users who send behaviour requests
BehaviorRequesters == Users \cup {"e1", AnonymousUser}

NextBehavior ==
    \/ \E user \in BehaviorRequesters, data \in BehaviorCreateData :
          CreateBehavior(user, data)
    \/ \E user \in BehaviorRequesters, id \in BehaviorIds, data \in BehaviorPutData :
          UpdateBehavior("PUT", user, id, data)
    \/ \E user \in BehaviorRequesters, id \in BehaviorIds, data \in BehaviorPatchData :
          UpdateBehavior("PATCH", user, id, data)
    \/ Respond

SpecBehavior == InitBehavior /\ [][NextBehavior]_vars

\* ------------------------------------------------------------------ concurrent updates
\* TaskViewSet.update / partial_update in the steps in which the code runs
\* them: get_object() reads the row, is_valid() validates the request against
\* the row that was read, and save() writes every column of that row back
\* (instance.save() without update_fields).  No step takes a lock and nothing
\* wraps the steps in a transaction, so the steps of two requests interleave.

\* the task the requests are sent to
RaceTask == 1

\* the PATCH requests that are sent, each by a user with a profile
RaceRequests ==
    { [user |-> u, data |-> [assignee |-> u]] : u \in Users }
    \cup { [user |-> "u1", data |-> [assignee |-> None]],
           [user |-> "u1", data |-> [is_submitted |-> TRUE]],
           [user |-> "e1", data |-> [name |-> "studying"]],
           [user |-> "e1", data |-> [is_approved |-> TRUE]] }

\* self.get_object(): the request arrives and the row is read
GetObject(p, req) ==
    /\ in_flight[p].pc = "idle"
    /\ Exists(tasks, RaceTask)
    /\ in_flight' = [in_flight EXCEPT ![p] =
           [pc |-> "read", user |-> req.user, data |-> req.data,
            obj |-> tasks[RaceTask]]]
    /\ UNCHANGED <<store, call, loop, deleter, api, tables, auth_users, last_user_id>>

\* serializer.is_valid(): validate() against the row that was read
IsValid(p) ==
    /\ in_flight[p].pc = "read"
    /\ LET r == in_flight[p]
           errors == validate(r.user, r.obj, to_internal_value(r.data))
       IN  in_flight' = [in_flight EXCEPT ![p] =
               IF DOMAIN errors # {}
               THEN [r EXCEPT !.pc = "done"] @@ [response |-> Response(400, errors, "")]
               ELSE [r EXCEPT !.pc = "valid"]]
    /\ UNCHANGED <<store, call, loop, deleter, api, tables, auth_users, last_user_id>>

\* serializer.save(): update() changes the row that was read and
\* instance.save() writes the whole of it
Save(p) ==
    /\ in_flight[p].pc = "valid"
    /\ LET r == in_flight[p]
           saved == update(r.obj, to_internal_value(r.data))
       IN  IF ~saved.ok
           THEN /\ in_flight' = [in_flight EXCEPT ![p] =
                       [r EXCEPT !.pc = "done"] @@
                       [response |-> Response(400, EmptyData,
                                              "You cannot update an inactive task")]]
                /\ UNCHANGED tasks
           ELSE /\ in_flight' = [in_flight EXCEPT ![p] =
                       [r EXCEPT !.pc = "done"] @@
                       [response |-> Response(200, EmptyData, "")]]
                /\ tasks' = [tasks EXCEPT ![RaceTask] = saved.instance]
    /\ UNCHANGED <<task_properties, user_properties, user_behaviors, call, loop,
                   deleter, api, tables, auth_users, last_user_id>>

\* one task of employer e1, free or taken by u1
InitRace ==
    /\ \E row \in { create("e1", [name |-> "cleaning",
                                    description |-> <<"clean", "bedroom">>]),
                      ApplyField(create("e1", [name |-> "cleaning",
                                               description |-> <<"clean", "bedroom">>]),
                                 "assignee", "u1") } :
           tasks = [t \in TaskIds |-> IF t = RaceTask THEN row ELSE NoTask]
    /\ task_properties = {}
    /\ user_properties = {}
    /\ user_behaviors = {}
    /\ CallInit
    /\ last_id = 1

NextRace ==
    \/ \E p \in Procs, req \in RaceRequests : GetObject(p, req)
    \/ \E p \in Procs : IsValid(p)
    \/ \E p \in Procs : Save(p)

SpecRace == InitRace /\ [][NextRace]_vars

\* ------------------------------------------------------------------ users
\* UserViewSet (views.py) with UserSerializer and UserService.authenticate_by_email
\* (service.py).  A create or an update runs in two steps, is_valid() and
\* save(); the User table has a unique username and no constraint on email.

Usernames == {"ann", "bob"}

Emails == {"a@x.org", "b@x.org"}

UserIds == 1..MaxUsers

UserRow(id, name, mail) == [id |-> id, username |-> name, email |-> mail]

\* queryset.get(pk=id), or NoTask for Http404
get_user(U, id) ==
    IF \E r \in U : r.id = id THEN CHOOSE r \in U : r.id = id ELSE NoTask

\* IsUserHimOrHerself is used by views.py and defined in none of the files at hand
IsUserHimOrHerself(user, obj) == obj # NoTask /\ obj.id = user

\* UniqueValidator of User.username; a row does not collide with itself
UsernameErrors(U, obj, data) ==
    IF Has(data, "username") /\ \E r \in U \ {obj} : r.username = data.username
    THEN [username |-> "A user with that username already exists."]
    ELSE EmptyData

\* UserSerializer.validate, lines 215-217: the check of the email
UserSerializer_validate(U, data) ==
    IF Has(data, "email") /\ data.email # "" /\ \E r \in U : r.email = data.email
    THEN [email |-> "A user with the provided email already exists."]
    ELSE EmptyData

\* UserService.authenticate_by_email: User.objects.get(email=email)
authenticate_by_email(U, email) ==
    IF ~\E r \in U : r.email = email THEN "Email does not exist"
    ELSE IF \E a, b \in U : a.email = email /\ b.email = email /\ a.id # b.id
    THEN "MultipleObjectsReturned"
    ELSE "authenticate"

\* the bodies of the POST and PATCH requests
UserCreateData == { [username |-> n, email |-> e] : n \in Usernames, e \in Emails }

UserPatchData == { [email |-> e] : e \in Emails }

\* POST /users/ arrives  (permission_classes = [AllowAny])
ReceiveCreateUser(p, data) ==
    /\ in_flight[p].pc = "idle"
    /\ last_user_id < MaxUsers
    /\ in_flight' = [in_flight EXCEPT ![p] =
           [pc |-> "read", method |-> "POST", data |-> data, obj |-> NoTask]]
    /\ UNCHANGED <<store, call, loop, deleter, api, tables, auth_users, last_user_id>>

\* PATCH /users/<id>/ arrives  (permission_classes = [IsUserHimOrHerself])
ReceiveUpdateUser(p, user, id, data) ==
    /\ in_flight[p].pc = "idle"
    /\ in_flight' = [in_flight EXCEPT ![p] =
           IF get_user(auth_users, id) = NoTask
           THEN [pc |-> "done", method |-> "PATCH", data |-> data, obj |-> NoTask,
                 response |-> Response(404, EmptyData, "Not found.")]
           ELSE IF ~IsUserHimOrHerself(user, get_user(auth_users, id))
           THEN [pc |-> "done", method |-> "PATCH", data |-> data,
                 obj |-> get_user(auth_users, id), response |-> Forbidden]
           ELSE [pc |-> "read", method |-> "PATCH", data |-> data,
                 obj |-> get_user(auth_users, id)]]
    /\ UNCHANGED <<store, call, loop, deleter, api, tables, auth_users, last_user_id>>

\* serializer.is_valid(): the field validators, then validate(), whose
\* `raise ValidationError(errors)` names a class serializers.py does not
\* import, so that the rejection reaches the client as a server error
UserIsValid(p) ==
    /\ in_flight[p].pc = "read"
    /\ LET r == in_flight[p]
       IN  in_flight' = [in_flight EXCEPT ![p] =
               IF DOMAIN UsernameErrors(auth_users, r.obj, r.data) # {}
               THEN [r EXCEPT !.pc = "done"] @@
                    [response |-> Response(400, UsernameErrors(auth_users, r.obj, r.data), "")]
               ELSE IF DOMAIN UserSerializer_validate(auth_users, r.data) # {}
               THEN [r EXCEPT !.pc = "done"] @@
                    [response |-> Response(500, UserSerializer_validate(auth_users, r.data),
                                           "NameError: name 'ValidationError' is not defined")]
               ELSE [r EXCEPT !.pc = "valid"]]
    /\ UNCHANGED <<store, call, loop, deleter, api, tables, auth_users, last_user_id>>

\* serializer.save(): UserSerializer.create inserts a row, UserSerializer.update
\* writes the row back; the unique index on username refuses a second row
\* of one username
SaveUser(p) ==
    /\ in_flight[p].pc = "valid"
    /\ LET r == in_flight[p]
       IN  IF r.method = "POST"
           THEN IF \E u \in auth_users : u.username = r.data.username
                THEN /\ in_flight' = [in_flight EXCEPT ![p] =
                            [r EXCEPT !.pc = "done"] @@
                            [response |-> Response(500, EmptyData, "IntegrityError")]]
                     /\ UNCHANGED <<auth_users, last_user_id>>
                ELSE /\ in_flight' = [in_flight EXCEPT ![p] =
                            [r EXCEPT !.pc = "done"] @@
                            [response |-> Response(201, EmptyData, "")]]
                     /\ last_user_id' = last_user_id + 1
                     /\ auth_users' = auth_users \cup
                            { UserRow(last_user_id + 1, r.data.username, r.data.email) }
           ELSE /\ in_flight' = [in_flight EXCEPT ![p] =
                       [r EXCEPT !.pc = "done"] @@
                       [response |-> Response(200, EmptyData, "")]]
                /\ auth_users' = { u \in auth_users : u.id # r.obj.id }
                                     \cup { Merge(r.obj, r.data) }
                /\ UNCHANGED last_user_id
    /\ UNCHANGED <<store, call, loop, deleter, api, tables>>

\* POST /users/singin/ with an email, answered in one step
SignIn(p, email) ==
    /\ in_flight[p].pc = "idle"
    /\ in_flight' = [in_flight EXCEPT ![p] =
           [pc |-> "done", method |-> "signin", data |-> [email |-> email], obj |-> NoTask,
            response |->
                IF authenticate_by_email(auth_users, email) = "Email does not exist"
                THEN Response(400, [error |-> "Email does not exist"], "")
                ELSE IF authenticate_by_email(auth_users, email) = "MultipleObjectsReturned"
                THEN Response(500, EmptyData, "MultipleObjectsReturned")
                ELSE Response(200, EmptyData, "")]]
    /\ UNCHANGED <<store, call, loop, deleter, api, tables, auth_users, last_user_id>>

\* the response has gone out; the process takes the next request
FinishRequest(p) ==
    /\ in_flight[p].pc = "done"
    /\ in_flight' = [in_flight EXCEPT ![p] = NotSent]
    /\ UNCHANGED <<store, call, loop, deleter, api, tables, auth_users, last_user_id>>

NextUsers ==
    \/ \E p \in Procs, data \in UserCreateData : ReceiveCreateUser(p, data)
    \/ \E p \in Procs, user \in UserIds, id \in UserIds, data \in UserPatchData :
          ReceiveUpdateUser(p, user, id, data)
    \/ \E p \in Procs : UserIsValid(p)
    \/ \E p \in Procs : SaveUser(p)
    \/ \E p \in Procs, email \in Emails : SignIn(p, email)
    \/ \E p \in Procs : FinishRequest(p)

SpecUsers == InitApi /\ [][NextUsers]_vars

\* ------------------------------------------------------------------ claims
\* The rows of the store, read without the queries of the service.
ActiveRows == { t \in TaskIds : tasks[t] # NoTask /\ tasks[t].is_active }

CompletedBy(u) ==
    { t \in TaskIds : /\ tasks[t] # NoTask
                      /\ tasks[t].assignee = u
                      /\ tasks[t].status = DONE }

LikedBy(u) == { t \in TaskIds : UserBehaviorRow(u, t, TRUE) \in user_behaviors }

InterestsOf(u) == { p \in Props : UserPropertyRow(u, p, TRUE) \in user_properties }

TagsOf(t) == { p \in Props : <<t, p>> \in task_properties }

Sim(t, c) == Similarity(tasks[t].description, tasks[c].description)

AllEqual(scores) == \A a, b \in DOMAIN scores : scores[a] = scores[b]

\* the z-score of scores[t] over the candidate set: (x - mean) / std, which
\* is (n x - sum) / sqrt(n sum(x^2) - sum^2); 0 when the deviation is 0
ZOver(scores, t) ==
    LET n == Cardinality(DOMAIN scores)
        sum == SumOver(scores, DOMAIN scores)
        squares == SumOver([x \in DOMAIN scores |-> scores[x] * scores[x]],
                           DOMAIN scores)
    IN  IF AllEqual(scores) THEN 0
        ELSE ((n * scores[t] - sum) * Scale) \div ISqrt(n * squares - sum * sum)

\* C1: the list a call returns is a permutation of exactly the tasks with
\* is_active = true: each once, no inactive task, none dropped for its score.
C1_RankIsPermutationOfActive ==
    pc = "returned" =>
        /\ Len(task_ranking) = Cardinality(ActiveRows)
        /\ Range(task_ranking) = ActiveRows

\* C1 witness: a returned ranking of several tasks, one of them of negative
\* total score, while the store also holds an inactive task.
C1_Witness ==
    /\ pc = "returned"
    /\ Len(task_ranking) >= 2
    /\ \E t \in Range(task_ranking) : final_scores[t] < 0
    /\ \E t \in TaskIds : tasks[t] # NoTask /\ ~tasks[t].is_active

\* C2: the returned list is sorted by descending total score.
C2_RankSortedDescending ==
    pc = "returned" =>
        \A i \in 1..(Len(task_ranking) - 1) :
            final_scores[task_ranking[i]] >= final_scores[task_ranking[i + 1]]

\* C2 witness: a returned ranking of three tasks of three different scores.
C2_Witness ==
    /\ pc = "returned"
    /\ Len(task_ranking) = 3
    /\ final_scores[task_ranking[1]] > final_scores[task_ranking[2]]
    /\ final_scores[task_ranking[2]] > final_scores[task_ranking[3]]

\* C3: the total score of every candidate is its normalised interest score
\* plus the z-score of its raw history score plus the z-score of its raw
\* behaviour score, each z-score taken over the candidate set.
C3_TotalIsSumOfNormalizedSignals ==
    pc = "returned" =>
        \A t \in all_active_task :
            final_scores[t] = normalized_interest_scores[t]
                              + ZOver(history_scores, t)
                              + ZOver(behavior_scores, t)

\* C5: the interest score is |U \cap T| / |T|, 0 for an untagged task, 1 when
\* every tag of the task is an interest of the user, and always in [0, 1].
C5_InterestScoreIsFractionOfTags ==
    pc = "returned" =>
        \A t \in all_active_task :
            LET U == InterestsOf(caller)
                T == TagsOf(t)
            IN  /\ interest_scores[t] * Cardinality(T)
                       = Cardinality(U \cap T) * Scale
                /\ T = {} => interest_scores[t] = 0
                /\ (T # {} /\ T \subseteq U) => interest_scores[t] = Scale
                /\ interest_scores[t] \in 0..Scale

\* C5 witness: one call scores a task half of whose tags interest the user,
\* a task all of whose tags do, and an untagged task for a user with interests.
C5_Witness ==
    /\ pc = "returned"
    /\ InterestsOf(caller) # {}
    /\ \E a, b, c \in all_active_task :
         /\ 2 * interest_scores[a] = Scale
         /\ interest_scores[b] = Scale
         /\ TagsOf(c) = {} /\ interest_scores[c] = 0

\* C6: the history score is the mean similarity to the tasks the user has
\* completed (assignee = user and status = Done), the behaviour score the
\* mean similarity to the tasks the user has liked (is_like = true); each is
\* 0 when that set is empty.
C6_ScoresAreMeanSimilarity ==
    pc = "returned" =>
        \A t \in all_active_task :
            LET C == CompletedBy(caller)
                L == LikedBy(caller)
            IN  /\ C = {} => history_scores[t] = 0
                /\ C # {} => history_scores[t] =
                       SumOver([c \in C |-> Sim(t, c).val], C) \div Cardinality(C)
                /\ L = {} => behavior_scores[t] = 0
                /\ L # {} => behavior_scores[t] =
                       SumOver([c \in L |-> Sim(t, c).val], L) \div Cardinality(L)

\* C6 witness: the caller has completed two tasks of different similarity to
\* a candidate, whose history score lies strictly between the two; the
\* candidate is assigned to the caller and not done, and the caller has
\* disliked it, which leaves its behaviour score 0.
C6_Witness ==
    /\ pc = "returned"
    /\ \E t \in all_active_task, c1, c2 \in CompletedBy(caller) :
         /\ Sim(t, c1).val < history_scores[t]
         /\ history_scores[t] < Sim(t, c2).val
         /\ tasks[t].assignee = caller
         /\ UserBehaviorRow(caller, t, FALSE) \in user_behaviors
         /\ Sim(t, t).val > 0
         /\ behavior_scores[t] = 0

\* C7: with a positive maximum raw interest score every normalised interest
\* score is raw / max, so the best task gets exactly 1 and all lie in [0, 1];
\* with maximum 0 every normalised interest score is 0.
C7_InterestMaxNormalization ==
    pc = "returned" =>
        LET raw == interest_scores
            top == IF all_active_task = {} THEN 0
                   ELSE CHOOSE m \in Range(raw) : \A v \in Range(raw) : v <= m
        IN  \A t \in all_active_task :
              /\ top > 0 =>
                   /\ normalized_interest_scores[t] * top = raw[t] * Scale
                   /\ raw[t] = top => normalized_interest_scores[t] = Scale
                   /\ normalized_interest_scores[t] \in 0..Scale
              /\ top = 0 => normalized_interest_scores[t] = 0

\* C7 witness: the best raw interest score of the candidates is one half, and
\* another candidate has raw score 0.
C7_Witness ==
    /\ pc = "returned"
    /\ \E a, b \in all_active_task :
         /\ 2 * interest_scores[a] = Scale
         /\ normalized_interest_scores[a] = Scale
         /\ interest_scores[b] = 0
         /\ \A t \in all_active_task : interest_scores[t] <= interest_scores[a]

C9_NoActiveTaskGivesEmptyRanking ==
    (pc # "idle" /\ ActiveRows = {}) =>
        /\ pc = "returned"
        /\ raised = "none"
        /\ task_ranking = <<>>

\* C9 witness: a call for a user with interests, a completed task and a liked
\* task, in a store without active tasks.
C9_Witness ==
    /\ pc = "returned"
    /\ ActiveRows = {}
    /\ task_ranking = <<>>
    /\ InterestsOf(caller) # {}
    /\ CompletedBy(caller) # {}
    /\ LikedBy(caller) # {}

\* C10: calc_task_similarity of two descriptions of which at least one is
\* empty is 0, without an error: no call that compares such a pair raises.
C10_EmptyDescriptionSimilarityIsZero ==
    pc # "idle" =>
        \A t \in all_active_task, c \in CompletedBy(caller) \cup LikedBy(caller) :
            (tasks[t].description = <<>> \/ tasks[c].description = <<>>) =>
                /\ calc_task_similarity(tasks[t].description,
                                        tasks[c].description)
                       = [ok |-> TRUE, val |-> 0]
                /\ raised # "ValueError"

\* ids the store returned to the running score call that resolve to no row
Unresolvable == { id \in ids : tasks[id] = NoTask }

InScoreLoop == pc \in {"history_loop", "behavior_loop"}

\* C4: a completed-task or liked-task id that cannot be resolved fails the
\* whole call: a step of the call in a score loop that holds such an id
\* either raises or leaves every such id still to be resolved, so the id is
\* never skipped and the loop is never left for a ranking.
C4_UnresolvedIdFailsTheCall ==
    [][ (InScoreLoop /\ Unresolvable # {} /\ tasks' = tasks) =>
            \/ pc' = "raised"
            \/ (pc' = pc /\ Unresolvable \subseteq ids') ]_vars

\* C4 witness: the call has raised the not-found fault on an id the store
\* had returned, after the concurrent DELETE removed its row.
C4_Witness ==
    /\ pc = "raised"
    /\ raised = "Http404"
    /\ deleter = "done"
    /\ Unresolvable # {}
    /\ task_ranking = <<>>

\* C11: the order of tasks of equal total score is deterministic: the list a
\* call returns is the one sorted(..., reverse=True) gives from every order
\* in which the candidate set can be enumerated, so two calls over the same
\* store return the same sequence.
C11_TieOrderIsDeterministic ==
    pc = "returned" =>
        \A order \in Orders(all_active_task) :
            SortedDesc(order, final_scores) = task_ranking

\* ---- the HTTP interface: what the claims speak of
IsUpdate == request # NoRequest /\ request.method \in {"PUT", "PATCH"}

\* the row of the requested task after the request
Row == tasks[request.task]

\* the request passes the field validation that runs before validate()
WellFormed == request.method = "PATCH" \/ {"name", "description"} \subseteq DOMAIN request.data

Sends(field, value) == Has(request.data, field) /\ request.data[field] = value

Employee(user) == user \in Users

Employer(user) == user \in Employers

\* the response is a validation error that names the field
RejectedOn(field) == response.status = 400 /\ Has(response.errors, field)

RejectedWith(field, message) == RejectedOn(field) /\ response.errors[field] = message

\* C12: an update with is_approved = true succeeds only for an employer who
\* owns the task, on a task that is neither 'Not started' nor 'In progress',
\* and then leaves it 'Done' and inactive; sent by an employee, by an employer
\* who is not the owner, or before the submission it is rejected with a
\* validation error on is_approved and the row is unchanged.
C12_ApprovalByOwnerAfterSubmission ==
    (IsUpdate /\ Sends("is_approved", TRUE)) =>
        /\ response.status = 200 =>
               /\ Employer(request.user)
               /\ instance.owner = request.user
               /\ instance.status \notin {NOT_STARTED, IN_PROGRESS}
               /\ Row.status = DONE
               /\ Row.is_active = FALSE
        /\ ( /\ WellFormed
             /\ \/ Employee(request.user)
                \/ Employer(request.user) /\ instance.owner # request.user
                \/ HasProfile(request.user)
                     /\ instance.status \in {NOT_STARTED, IN_PROGRESS} ) =>
               /\ RejectedOn("is_approved")
               /\ Row = instance

\* C12 witness: the owner has approved a task in review, which is now done
\* and inactive.
C12_Witness ==
    /\ IsUpdate
    /\ Sends("is_approved", TRUE)
    /\ response.status = 200
    /\ instance.status = IN_REVIEW
    /\ instance.owner = request.user
    /\ Row.status = DONE
    /\ ~Row.is_active

\* C13: an update with is_submitted = true succeeds only for the employee
\* who is the assignee, on a task that is not 'Not started', and then leaves
\* the status 'In review' and the assignee as it was; sent by an employer, by
\* an employee who is not the assignee, or on a task not started it is
\* rejected with a validation error on is_submitted and the row is unchanged.
C13_SubmissionByAssignee ==
    (IsUpdate /\ Sends("is_submitted", TRUE)) =>
        /\ response.status = 200 =>
               /\ Employee(request.user)
               /\ instance.assignee = request.user
               /\ instance.status # NOT_STARTED
               /\ Row.status = IN_REVIEW
               /\ Row.assignee = instance.assignee
        /\ ( /\ WellFormed
             /\ \/ Employer(request.user)
                \/ Employee(request.user) /\ instance.assignee # request.user
                \/ HasProfile(request.user) /\ instance.status = NOT_STARTED ) =>
               /\ RejectedOn("is_submitted")
               /\ Row = instance

\* C14: on an active task without assignee an employee's update of assignee
\* succeeds only when it names the requester (who is then the assignee of a
\* task 'In progress'); an employee naming another user and an employer are
\* rejected with their messages, an unauthenticated request is forbidden, and
\* a rejected request leaves assignee and status as they were.
C14_SelfAssignmentOnly ==
    (IsUpdate /\ Has(request.data, "assignee")
        /\ instance.is_active /\ instance.assignee = None) =>
        /\ (Employee(request.user) /\ response.status = 200) =>
               /\ request.data.assignee = request.user
               /\ Row.assignee = request.user
               /\ Row.status = IN_PROGRESS
        /\ (WellFormed /\ Employee(request.user)
              /\ request.data.assignee \notin {None, request.user}) =>
               RejectedWith("assignee", "You can only assign the task to yourself.")
        /\ (WellFormed /\ Employer(request.user)) =>
               RejectedWith("assignee",
                            "You do not have the permission to change the assignee.")
        /\ request.user = AnonymousUser => response.status = 403
        /\ response.status # 200 =>
               /\ Row.assignee = instance.assignee
               /\ Row.status = instance.status

\* C14 as amended: the update also succeeds when it sends null, and then the
\* task stays without assignee and is 'Not started'.
C14_SelfAssignmentOrNull ==
    (IsUpdate /\ Has(request.data, "assignee")
        /\ instance.is_active /\ instance.assignee = None) =>
        /\ (Employee(request.user) /\ response.status = 200) =>
               \/ /\ request.data.assignee = request.user
                  /\ Row.assignee = request.user
                  /\ Row.status = IN_PROGRESS
               \/ /\ request.data.assignee = None
                  /\ Row.assignee = None
                  /\ Row.status = NOT_STARTED
        /\ (WellFormed /\ Employee(request.user)
              /\ request.data.assignee \notin {None, request.user}) =>
               RejectedWith("assignee", "You can only assign the task to yourself.")
        /\ (WellFormed /\ Employer(request.user)) =>
               RejectedWith("assignee",
                            "You do not have the permission to change the assignee.")
        /\ request.user = AnonymousUser => response.status = 403
        /\ response.status # 200 =>
               /\ Row.assignee = instance.assignee
               /\ Row.status = instance.status

\* C14 witness: an employee has taken a free task, which is now in progress.
C14_Witness ==
    /\ IsUpdate
    /\ Employee(request.user)
    /\ Sends("assignee", request.user)
    /\ instance.assignee = None
    /\ instance.status = NOT_STARTED
    /\ response.status = 200
    /\ Row.assignee = request.user
    /\ Row.status = IN_PROGRESS

\* C15: on a task that has an assignee an update of assignee succeeds only
\* when the assignee sends null, and then leaves the task without assignee
\* and 'Not started'; the assignee naming a user and any other user are
\* rejected with their messages, and a rejected request leaves assignee and
\* status as they were.
C15_DismissalOnlyByAssignee ==
    (IsUpdate /\ Has(request.data, "assignee") /\ instance.assignee # None) =>
        /\ response.status = 200 =>
               /\ request.user = instance.assignee
               /\ request.data.assignee = None
               /\ Row.assignee = None
               /\ Row.status = NOT_STARTED
        /\ (WellFormed /\ request.user = instance.assignee
              /\ request.data.assignee # None) =>
               RejectedWith("assignee", "You can only unassign yourself from the task.")
        /\ (WellFormed /\ HasProfile(request.user)
              /\ request.user # instance.assignee) =>
               RejectedWith("assignee",
                            "Only the current task assignee can change this field.")
        /\ response.status # 200 =>
               /\ Row.assignee = instance.assignee
               /\ Row.status = instance.status

\* C16: every PUT or PATCH on a task that is not active is rejected with 400,
\* whoever sends it and whatever it holds, and leaves the row as it was; so a
\* task that is 'Done' is never changed by an update.
C16_InactiveTaskRejectsWith400 ==
    (IsUpdate /\ ~instance.is_active) =>
        /\ response.status = 400
        /\ Row = instance

\* C16 as amended: the update is rejected and leaves the row as it was; the
\* answer is 403 to an unauthenticated requester, 400 to a requester with a
\* profile or a request that fails field validation, and the server error of
\* UserProfile.DoesNotExist to an authenticated user without profile.
C16_InactiveTaskIsFrozen ==
    /\ (IsUpdate /\ ~instance.is_active) =>
           /\ Row = instance
           /\ response.status =
                  IF request.user = AnonymousUser THEN 403
                  ELSE IF ~WellFormed \/ HasProfile(request.user) THEN 400
                  ELSE 500
    /\ (IsUpdate /\ instance.status = DONE) => Row = instance

\* C16 witness: the owner's change of the name of a task that is done is
\* rejected by update() and the task keeps its name.
C16_Witness ==
    /\ IsUpdate
    /\ instance.status = DONE
    /\ ~instance.is_active
    /\ request.user = instance.owner
    /\ DOMAIN request.data = {"name"}
    /\ request.data.name # instance.name
    /\ response = Response(400, EmptyData, "You cannot update an inactive task")
    /\ Row.name = instance.name

\* the fields name, description, output of the request
DetailFields == {"name", "description", "output"} \cap DOMAIN request.data

\* C17: an update that holds name, description or output (and passes field
\* validation) is rejected with 400 and one error for each of these fields it
\* holds when an authenticated user who is not the owner sends it (for an employer: 'Only the owner of the task
\* can change this field.'), is forbidden to an unauthenticated requester, and
\* leaves the row as it was when rejected; sent by the owner it succeeds and
\* the row holds the new values.
C17_OnlyOwnerChangesDetails ==
    (IsUpdate /\ DetailFields # {}) =>
        /\ (WellFormed /\ is_authenticated(request.user)
              /\ request.user # instance.owner) =>
               /\ response.status = 400
               /\ DOMAIN response.errors \cap {"name", "description", "output"}
                      = DetailFields
               /\ Employer(request.user) =>
                      \A field \in DetailFields : response.errors[field] =
                          "Only the owner of the task can change this field."
        /\ request.user = AnonymousUser => response.status = 403
        /\ response.status # 200 => Row = instance
        /\ (WellFormed /\ request.user = instance.owner) =>
               /\ response.status = 200
               /\ \A field \in DetailFields : Row[field] = request.data[field]

\* C17 as amended: the rejection with one error per detail field is that of a
\* non-owner who has a profile and whose request passes field validation (a
\* user without profile gets the server error of UserProfile.DoesNotExist);
\* the owner's request succeeds when the task is active and the request holds
\* these fields only; whenever a request succeeds the row holds its values.
C17_OnlyOwnerChangesDetailsOfActiveTask ==
    (IsUpdate /\ DetailFields # {}) =>
        /\ response.status = 200 =>
               /\ request.user = instance.owner
               /\ \A field \in DetailFields : Row[field] = request.data[field]
        /\ (WellFormed /\ HasProfile(request.user)
              /\ request.user # instance.owner) =>
               /\ response.status = 400
               /\ DOMAIN response.errors \cap {"name", "description", "output"}
                      = DetailFields
               /\ Employer(request.user) =>
                      \A field \in DetailFields : response.errors[field] =
                          "Only the owner of the task can change this field."
        /\ (WellFormed /\ is_authenticated(request.user)
              /\ ~HasProfile(request.user)) => response.status = 500
        /\ request.user = AnonymousUser => response.status = 403
        /\ response.status # 200 => Row = instance
        /\ (WellFormed /\ request.user = instance.owner /\ instance.is_active
              /\ DOMAIN request.data = DetailFields) =>
               /\ response.status = 200
               /\ \A field \in DetailFields : Row[field] = request.data[field]

\* C17 witness: a PUT of the three fields by an employer who is not the owner
\* is answered with 400 and three errors, and the task is unchanged.
C17_Witness ==
    /\ IsUpdate
    /\ request.method = "PUT"
    /\ DetailFields = {"name", "description", "output"}
    /\ Employer(request.user)
    /\ request.user # instance.owner
    /\ response.status = 400
    /\ DOMAIN response.errors = DetailFields
    /\ Row = instance
    /\ Row.name # request.data.name

\* C18: a POST creates a task only for an authenticated user with an employer
\* profile (anybody else gets 403 and no task is added); the created task has
\* the creator as owner whatever the request holds, no assignee, status 'Not
\* started', is active, is neither submitted nor approved and has no
\* submitted_on and no approved_on.
C18_CreationByEmployerWithDefaults ==
    [][ (request' # NoRequest /\ request'.method = "POST") =>
            /\ response'.status = 201 => Employer(request'.user)
            /\ ~Employer(request'.user) =>
                   /\ response'.status = 403
                   /\ tasks' = tasks
            /\ response'.status = 201 =>
                   /\ tasks[last_id'] = NoTask
                   /\ tasks'[last_id'].owner = request'.user
                   /\ tasks'[last_id'].assignee = None
                   /\ tasks'[last_id'].status = NOT_STARTED
                   /\ tasks'[last_id'].is_active = TRUE
                   /\ tasks'[last_id'].is_submitted = FALSE
                   /\ tasks'[last_id'].is_approved = FALSE
                   /\ tasks'[last_id'].submitted_on = None
                   /\ tasks'[last_id'].approved_on = None ]_vars

\* C19: a DELETE removes the task (204) only when the requester is its owner
\* or a superuser; sent by an unauthenticated requester, an employee or an
\* employer who is not the owner it is answered with 403 and the task stays.
C19_DeletionOnlyByOwner ==
    (request # NoRequest /\ request.method = "DELETE") =>
        /\ response.status = 204 =>
               /\ \/ Employer(request.user) /\ instance.owner = request.user
                  \/ is_superuser(request.user)
               /\ Row = NoTask
        /\ ( \/ request.user = AnonymousUser
             \/ Employee(request.user)
             \/ Employer(request.user) /\ instance.owner # request.user ) =>
               /\ response.status = 403
               /\ Row = instance

\* C19 witness: the owner has deleted a task that an employee had taken.
C19_Witness ==
    /\ request # NoRequest
    /\ request.method = "DELETE"
    /\ Employer(request.user)
    /\ instance.owner = request.user
    /\ instance.assignee # None
    /\ response.status = 204
    /\ Row = NoTask

\* a GET of one task / of the list of tasks
IsRetrieve == request # NoRequest /\ request.method = "GET" /\ instance # NoTask

IsList == request # NoRequest /\ request.method = "GET" /\ instance = NoTask

\* C20: a GET of a task by an employer is served exactly when the employer
\* owns the task, whatever the state of the task.
C20_EmployerRetrievesOwnTasks ==
    (IsRetrieve /\ Employer(request.user)) =>
        (response.status = 200 <=> instance.owner = request.user)

\* C21: reading tasks needs no authentication: an anonymous GET of the list
\* is answered with 200 and every task of the store (count = number of stored
\* tasks), an anonymous GET of a task with 200 and that task.
C21_AnonymousReadsEveryTask ==
    /\ (IsList /\ request.user = AnonymousUser) =>
           /\ response.status = 200
           /\ response.results = { t \in TaskIds : tasks[t] # NoTask }
           /\ response.count = Cardinality({ t \in TaskIds : tasks[t] # NoTask })
    /\ (IsRetrieve /\ request.user = AnonymousUser) => response.status = 200

\* C24: the assignee of a task, when it has one, is a user with an employee
\* profile: no sequence of create and update requests makes an employer or a
\* user without profile the assignee.
C24_AssigneeIsEmployee ==
    \A t \in TaskIds :
        (tasks[t] # NoTask /\ tasks[t].assignee # None) =>
            (HasProfile(tasks[t].assignee) /\ ~is_employer(tasks[t].assignee))

\* C25: the stored flags agree with the status: a task that is 'In review' or
\* 'Done' has is_submitted = true, and is_approved is true exactly when the
\* task is 'Done'.
C25_FlagsAgreeWithStatus ==
    \A t \in TaskIds :
        tasks[t] # NoTask =>
            /\ tasks[t].status \in {IN_REVIEW, DONE} => tasks[t].is_submitted
            /\ tasks[t].is_approved <=> tasks[t].status = DONE

\* the assignee of a row is null exactly when its status is 'Not started'
StatusMatchesAssignee(row) == row.assignee = None <=> row.status = NOT_STARTED

\* C26: a successful update keeps status and assignee consistent: sent to a
\* task whose assignee is null exactly when it is 'Not started', it leaves a
\* task of which the same is true, whichever fields the request carries; so a
\* task 'In review' or 'Done' always has an assignee.
C26_StatusMatchesAssignee ==
    (IsUpdate /\ response.status = 200 /\ StatusMatchesAssignee(instance)) =>
        /\ StatusMatchesAssignee(Row)
        /\ Row.status \in {IN_REVIEW, DONE} => Row.assignee # None

\* the request was sent to a stored task, which is still stored
OnStoredTask == request # NoRequest /\ instance # NoTask /\ Row # NoTask

\* C27: a task is active exactly when it is not 'Done'; a task becomes 'Done'
\* only by an update with is_approved = true sent to a task 'In review', and
\* becomes 'In review' only from 'In progress' with an assignee (a created
\* task is 'Not started').
C27_LifeCycle ==
    /\ \A t \in TaskIds :
           tasks[t] # NoTask => (tasks[t].is_active <=> tasks[t].status # DONE)
    /\ (OnStoredTask /\ Row.status = DONE /\ instance.status # DONE) =>
           /\ IsUpdate
           /\ Sends("is_approved", TRUE)
           /\ instance.status = IN_REVIEW
    /\ (OnStoredTask /\ Row.status = IN_REVIEW /\ instance.status # IN_REVIEW) =>
           /\ IsUpdate
           /\ instance.status = IN_PROGRESS
           /\ instance.assignee # None
    /\ (request # NoRequest /\ request.method = "POST" /\ response.status = 201) =>
           tasks[last_id].status = NOT_STARTED

\* C27 witness: a task submitted by its assignee has been approved: it was
\* 'In review' and active, and is now 'Done' and inactive.
C27_Witness ==
    /\ OnStoredTask
    /\ instance.status = IN_REVIEW
    /\ instance.is_active
    /\ instance.submitted_on = Now
    /\ instance.assignee # None
    /\ Row.status = DONE
    /\ ~Row.is_active
    /\ Row.approved_on = Now

\* ---- user profiles: what the claims speak of
OneProfilePerUser ==
    \A a, b \in user_profiles : a.user = b.user => a = b

\* a profile is created only by the user it belongs to, and PUT and PATCH
\* are answered with 403
ProfileRequestsAnswered ==
    request # NoRequest =>
        /\ (request.method = "POST" /\ response.status = 201) =>
               /\ request.data.user = request.user
               /\ \E r \in user_profiles :
                      r.id = last_profile_id /\ r.user = request.user
        /\ request.method \in {"PUT", "PATCH"} => response.status = 403

\* no step changes or removes a stored profile
ProfilesAreKept == \A r \in user_profiles : r \in user_profiles'

IsProfileDelete ==
    request # NoRequest /\ request.method = "DELETE" /\ instance # NoTask

\* C22: every user has at most one profile, a profile is created only by its
\* user, PUT and PATCH are answered with 403, a DELETE of the requester's own
\* profile with 400 and of somebody else's with 403, and no request changes
\* is_employer of a stored profile or removes the profile.
C22_RoleIsFixed ==
    /\ [](OneProfilePerUser /\ ProfileRequestsAnswered)
    /\ [](IsProfileDelete =>
             response.status = IF instance.user = request.user THEN 400 ELSE 403)
    /\ [][ProfilesAreKept]_vars

\* C22 as amended: the DELETE of somebody else's profile is answered with 403
\* unless a superuser sends it, who passes the permission and gets the same
\* 400 as the owner.
C22_RoleIsFixedSuperuserGets400 ==
    /\ [](OneProfilePerUser /\ ProfileRequestsAnswered)
    /\ [](IsProfileDelete =>
             response.status =
                 IF instance.user = request.user \/ is_superuser(request.user)
                 THEN 400 ELSE 403)
    /\ [][ProfilesAreKept]_vars

\* C22 witness: two users have a profile each, and the DELETE one of them
\* sent for the own profile was answered with 400 and has left the profile.
C22_Witness ==
    /\ IsProfileDelete
    /\ instance.user = request.user
    /\ response.status = 400
    /\ instance \in user_profiles
    /\ Cardinality(user_profiles) >= 2

\* ---- user behaviours: what the claims speak of
OneBehaviorPerPair ==
    \A a, b \in user_behaviors : (a.user = b.user /\ a.task = b.task) => a.id = b.id

\* the (user, task) the request aims at
Aim(req, obj) == FilledIn(obj, req.data)

\* the request is a create by an employee, or an update by the user of the
\* row, that names a pair of user and stored task which another row holds
WouldDuplicate(req, obj, B) ==
    /\ req.method \in {"POST", "PUT", "PATCH"}
    /\ IF req.method = "POST" THEN Employee(req.user)
                               ELSE obj # NoTask /\ obj.user = req.user
    /\ {"user", "task"} \subseteq DOMAIN Aim(req, obj)
    /\ \E r \in B \ {obj} : r.user = Aim(req, obj).user /\ r.task = Aim(req, obj).task

\* what a behaviour request may do to the table
BehaviorStep ==
    request' # NoRequest =>
        /\ WouldDuplicate(request', instance', user_behaviors) =>
               /\ response'.status = 400
               /\ user_behaviors' = user_behaviors
        /\ (request'.method = "POST" /\ response'.status = 201) =>
               /\ Employee(request'.user)
               /\ user_behaviors' \ user_behaviors =
                      { BehaviorRow(last_behavior_id', request'.user,
                                    request'.data.task, request'.data.is_like) }
        /\ request'.method = "POST" => user_behaviors \subseteq user_behaviors'
        /\ \A a \in user_behaviors :
               \E b \in user_behaviors' : b.id = a.id /\ b.user = a.user

\* C23: no two behaviour records have the same user and task; a create, or
\* an update that remaps a record, which would give a second record for a
\* pair is answered with 400 and leaves the table as it was; a record is
\* created only by an employee and for the requester; the user of a record
\* never changes.
C23_OneBehaviorPerUserAndTask ==
    /\ []OneBehaviorPerPair
    /\ [][BehaviorStep]_vars

\* C23 witness: u1 has a behaviour for each of the two tasks, and the PATCH
\* that remaps the one to the task of the other was answered with 400.
C23_Witness ==
    /\ request # NoRequest
    /\ request.method = "PATCH"
    /\ instance # NoTask
    /\ request.user = instance.user
    /\ Has(request.data, "task")
    /\ request.data.task # instance.task
    /\ \E r \in user_behaviors : r.user = instance.user /\ r.task = request.data.task
    /\ response.status = 400
    /\ Has(response.errors, "non_field_errors")
    /\ instance \in user_behaviors

\* ---- concurrent updates: what the claims speak of
\* the request of process p is an employee's self-assignment
SelfAssignment(p) ==
    /\ in_flight[p].pc # "idle"
    /\ Employee(in_flight[p].user)
    /\ DOMAIN in_flight[p].data = {"assignee"}
    /\ in_flight[p].data.assignee = in_flight[p].user

Succeeded(p) == in_flight[p].pc = "done" /\ in_flight[p].response.status = 200

\* process p saves a request that holds detail fields only
SavesDetails(p) ==
    /\ in_flight[p].pc = "valid"
    /\ in_flight'[p].pc = "done"
    /\ DOMAIN in_flight[p].data \subseteq {"name", "description", "output"}

\* C28: of two self-assignments that two employees send for the same free
\* task at most one is answered with success, and when both are finished a
\* requester who was answered with success is the assignee; the save of an
\* owner's edit of name, description or output changes neither the assignee
\* nor the status that another request has committed.
C28_ConcurrentClaimsAreExclusive ==
    /\ [](\A p, q \in Procs :
             ( /\ p # q
               /\ SelfAssignment(p) /\ SelfAssignment(q)
               /\ in_flight[p].user # in_flight[q].user
               /\ in_flight[p].pc = "done" /\ in_flight[q].pc = "done" ) =>
                 /\ ~(Succeeded(p) /\ Succeeded(q))
                 /\ Succeeded(p) => tasks[RaceTask].assignee = in_flight[p].user)
    /\ [][\A p \in Procs :
             SavesDetails(p) =>
                 /\ tasks'[RaceTask].assignee = tasks[RaceTask].assignee
                 /\ tasks'[RaceTask].status = tasks[RaceTask].status]_vars

\* C29: a call that runs while another request deletes a task behaves as if
\* it had read one state of the store; in particular, the store holding no
\* dangling reference at any instant (a DELETE removes the task together
\* with the rows that name it), the call never fails with a not-found fault.
C29_CallReadsOneStoreState ==
    /\ \A r \in user_behaviors : Exists(tasks, r.task)
    /\ \A r \in task_properties : Exists(tasks, r[1])
    /\ raised # "Http404"

\* C30: no two users have the same non-empty email, whatever the
\* interleaving of the create and update requests, so that a sign-in by
\* email finds at most one user.
C30_EmailIsUnique ==
    /\ \A a, b \in auth_users : (a.email = b.email /\ a.email # "") => a.id = b.id
    /\ \A email \in Emails :
           authenticate_by_email(auth_users, email) # "MultipleObjectsReturned"
    /\ \A p \in Procs :
           (in_flight[p].pc = "done" /\ in_flight[p].method = "signin") =>
               in_flight[p].response.status # 500

====
